---------------------------- MODULE Spec2Model ----------------------------
(***************************************************************************)
(* Model of the SR Linux interactive session engine                        *)
(* (plugins/module_utils/srlinux.py, class SRLinuxConnection).             *)
(*                                                                         *)
(* Text is a sequence of characters; a character is a one-symbol string.   *)
(* The device is the environment: every output read from the shell is an   *)
(* input drawn from a bounded set of texts, and every send / receive on    *)
(* the shell may raise a transport exception.                              *)
(***************************************************************************)
EXTENDS Integers, Sequences, FiniteSets, TLC

(***************************************************************************)
(* Bounds of the model.                                                    *)
(***************************************************************************)
MaxLines == 2

MaxDiffLines == 2

\* chunks the device writes in answer to one command
MaxChunks == 2

\* commands in one call of execute_commands
MaxCommands == 2

\* pieces an argument of _strip_ansi_codes is made of
MaxPieces == 3

\* the most lines of an intended configuration / of a device answer compared
MaxIntended == 2

MaxObserved == 2

\* lines of an argument of _clean_diff_output
MaxCleanerLines == 3

(***************************************************************************)
(* Characters.                                                             *)
(***************************************************************************)
ESC == "<ESC>"

BEL == "<BEL>"

NUL == "<NUL>"

FF == "\f"

DEL == "<DEL>"

LowerSeq ==
  <<"a", "b", "c", "d", "e", "f", "g", "h", "i", "j", "k", "l", "m",
    "n", "o", "p", "q", "r", "s", "t", "u", "v", "w", "x", "y", "z">>

UpperSeq ==
  <<"A", "B", "C", "D", "E", "F", "G", "H", "I", "J", "K", "L", "M",
    "N", "O", "P", "Q", "R", "S", "T", "U", "V", "W", "X", "Y", "Z">>

Range(s) == {s[i] : i \in 1..Len(s)}

Letters == Range(LowerSeq) \cup Range(UpperSeq)

Digits == {"0", "1", "2", "3", "4", "5", "6", "7", "8", "9"}

\* str.strip() / str.isspace() on the characters of the alphabet
WhiteSpace == {" ", "\t", "\n", "\r", FF}

\* the class [\x00-\x08\x0b-\x0c\x0e-\x1f] on the characters of the alphabet
ControlChars == {NUL, BEL, FF, ESC}

\* the class [0-9;]
ParamChars == Digits \cup {";"}

IsAlnum(c) == c \in Letters \cup Digits

LowerChar(c) ==
  IF c \in Range(UpperSeq)
    THEN LowerSeq[CHOOSE i \in 1..Len(UpperSeq) : UpperSeq[i] = c]
    ELSE c

\* str.lower()
Lower(t) == [i \in 1..Len(t) |-> LowerChar(t[i])]

(***************************************************************************)
(* Python string primitives on character sequences.                        *)
(***************************************************************************)
\* t[i:] starts with p  (i is 1-based)
MatchAt(t, i, p) ==
  /\ i + Len(p) - 1 <= Len(t)
  /\ \A k \in 1..Len(p) : t[i + k - 1] = p[k]

\* str.startswith
StartsWith(t, p) == MatchAt(t, 1, p)

\* p in t
Contains(t, p) == \E i \in 1..(Len(t) - Len(p) + 1) : MatchAt(t, i, p)

\* p in t[i:]
ContainsFrom(t, i, p) == \E j \in i..(Len(t) - Len(p) + 1) : MatchAt(t, j, p)

\* str.strip()
Strip(t) ==
  LET keep == {i \in 1..Len(t) : t[i] \notin WhiteSpace}
  IN IF keep = {} THEN <<>>
     ELSE LET lo == CHOOSE i \in keep : \A j \in keep : i <= j
              hi == CHOOSE i \in keep : \A j \in keep : j <= i
          IN SubSeq(t, lo, hi)

\* str.split('\n'): always at least one (possibly empty) piece
Split(t) ==
  LET f[i \in 0..Len(t)] ==
        \* the pieces of t[1..i]
        IF i = 0 THEN << <<>> >>
        ELSE LET prev == f[i - 1]
                 n == Len(prev)
             IN IF t[i] = "\n" THEN Append(prev, <<>>)
                ELSE [prev EXCEPT ![n] = Append(prev[n], t[i])]
  IN f[Len(t)]

\* '\n'.join(ls)
Join(ls) ==
  LET f[i \in 0..Len(ls)] ==
        IF i = 0 THEN <<>>
        ELSE IF i = 1 THEN ls[1]
        ELSE f[i - 1] \o <<"\n">> \o ls[i]
  IN f[Len(ls)]

\* first position >= q whose character is outside cls (Len(t) + 1 when none)
SkipClass(t, q, cls) ==
  CHOOSE p \in q..(Len(t) + 1) :
    /\ p > Len(t) \/ t[p] \notin cls
    /\ \A k \in q..(p - 1) : t[k] \in cls

(***************************************************************************)
(* _strip_ansi_codes: seven substitutions, in the order of the code.       *)
(***************************************************************************)
\* \x1b\[\??[0-9;]*[a-zA-Z]
CsiLen(t, i) ==
  IF ~MatchAt(t, i, <<ESC, "[">>) THEN 0
  ELSE LET q == IF MatchAt(t, i + 2, <<"?">>) THEN i + 3 ELSE i + 2
           p == SkipClass(t, q, ParamChars)
       IN IF p <= Len(t) /\ t[p] \in Letters THEN p - i + 1 ELSE 0

\* \x1b\].*?\x07   ('.' does not match a newline)
OscLen(t, i) ==
  IF ~MatchAt(t, i, <<ESC, "]">>) THEN 0
  ELSE LET p == SkipClass(t, i + 2, Range(t) \ {BEL, "\n"})
       IN IF p <= Len(t) /\ t[p] = BEL THEN p - i + 1 ELSE 0

\* \x1b[=>]
ShortEscLen(t, i) ==
  IF MatchAt(t, i, <<ESC, "=">>) \/ MatchAt(t, i, <<ESC, ">">>) THEN 2 ELSE 0

\* \x1b\([0-9;]*[a-zA-Z]
CharsetLen(t, i) ==
  IF ~MatchAt(t, i, <<ESC, "(">>) THEN 0
  ELSE LET p == SkipClass(t, i + 2, ParamChars)
       IN IF p <= Len(t) /\ t[p] \in Letters THEN p - i + 1 ELSE 0

\* \x1b\[6n
DsrLen(t, i) == IF MatchAt(t, i, <<ESC, "[", "6", "n">>) THEN 4 ELSE 0

\* \x1b\[\?2004[hl]
PasteLen(t, i) ==
  IF \/ MatchAt(t, i, <<ESC, "[", "?", "2", "0", "0", "4", "h">>)
     \/ MatchAt(t, i, <<ESC, "[", "?", "2", "0", "0", "4", "l">>)
    THEN 8 ELSE 0

\* [\x00-\x08\x0b-\x0c\x0e-\x1f]
ControlLen(t, i) == IF t[i] \in ControlChars THEN 1 ELSE 0

\* the length of the match of the named pattern that starts at i, 0 when none
MatchLen(pattern, t, i) ==
  CASE pattern = "csi" -> CsiLen(t, i)
    [] pattern = "osc" -> OscLen(t, i)
    [] pattern = "short" -> ShortEscLen(t, i)
    [] pattern = "charset" -> CharsetLen(t, i)
    [] pattern = "dsr" -> DsrLen(t, i)
    [] pattern = "paste" -> PasteLen(t, i)
    [] pattern = "control" -> ControlLen(t, i)

\* re.sub(pattern, '', t); no pattern matches the empty string
RegexSub(pattern, t) ==
  LET f[i \in 1..(Len(t) + 1)] ==
        IF i > Len(t) THEN <<>>
        ELSE LET m == MatchLen(pattern, t, i)
             IN IF m > 0 THEN f[i + m] ELSE <<t[i]>> \o f[i + 1]
  IN f[1]

_strip_escapes_only(text) ==
  LET t1 == RegexSub("csi", text)
      t2 == RegexSub("osc", t1)
      t3 == RegexSub("short", t2)
      t4 == RegexSub("charset", t3)
      t5 == RegexSub("dsr", t4)
  IN RegexSub("paste", t5)

_strip_ansi_codes(text) ==
  LET t1 == RegexSub("csi", text)
      t2 == RegexSub("osc", t1)
      t3 == RegexSub("short", t2)
      t4 == RegexSub("charset", t3)
      t5 == RegexSub("dsr", t4)
      t6 == RegexSub("paste", t5)
  IN RegexSub("control", t6)

(***************************************************************************)
(* _clean_diff_output                                                      *)
(***************************************************************************)
\* re.match(r'^--\{.*\}--', line)
IsBannerLine(line) ==
  StartsWith(line, <<"-", "-", "{">>) /\ ContainsFrom(line, 4, <<"}", "-", "-">>)

\* re.match(r'^A:.*#', line)
IsPromptLine(line) ==
  StartsWith(line, <<"A", ":">>) /\ ContainsFrom(line, 3, <<"#">>)

DiffCmd == <<"d", "i", "f", "f">>

KeepDiffLine(line) ==
  /\ ~IsBannerLine(line)
  /\ ~IsPromptLine(line)
  /\ Strip(line) # DiffCmd
  /\ Strip(line) # <<>>

\* c.isalnum() or c in '+-{}[]'
IsContentChar(c) == IsAlnum(c) \/ c \in {"+", "-", "{", "}", "[", "]"}

_clean_diff_output(diff_output) ==
  LET clean == _strip_ansi_codes(diff_output)
      cleaned_lines == SelectSeq(Split(clean), KeepDiffLine)
      res == Strip(Join(cleaned_lines))
  IN IF res = <<>> \/ ~(\E i \in 1..Len(res) : IsContentChar(res[i]))
       THEN <<>>
       ELSE res

(***************************************************************************)
(* The change detection of send_config (the loop over the diff's lines).   *)
(***************************************************************************)
Keywords ==
  { <<"i", "n", "t", "e", "r", "f", "a", "c", "e">>,
    <<"n", "e", "t", "w", "o", "r", "k", "-", "i", "n", "s", "t", "a", "n", "c", "e">>,
    <<"p", "r", "o", "t", "o", "c", "o", "l", "s">>,
    <<"s", "y", "s", "t", "e", "m">> }

IsMarkerLineNoHeader(line) ==
  StartsWith(Strip(line), <<"+">>) \/ StartsWith(Strip(line), <<"-">>)

\* line.strip().startswith(('+', '-')) and
\*   not line.strip().startswith(('+++', '---'))
IsMarkerLine(line) ==
  LET s == Strip(line)
  IN /\ StartsWith(s, <<"+">>) \/ StartsWith(s, <<"-">>)
     /\ ~(StartsWith(s, <<"+", "+", "+">>) \/ StartsWith(s, <<"-", "-", "-">>))

\* any(keyword in line for keyword in [...])
HasKeyword(line) == \E k \in Keywords : Contains(line, k)

\* '+' in result['diff'] or '-' in result['diff']
HasSign(diff) == Contains(diff, <<"+">>) \/ Contains(diff, <<"-">>)

has_changes(diff) ==
  IF diff = <<>> THEN FALSE
  ELSE LET ls == Split(diff)
           loop[i \in 1..(Len(ls) + 1)] ==
             IF i > Len(ls) THEN FALSE
             ELSE IF IsMarkerLine(ls[i]) THEN TRUE
             ELSE IF HasKeyword(ls[i]) /\ HasSign(diff) THEN TRUE
             ELSE loop[i + 1]
       IN loop[1]

(***************************************************************************)
(* Commands, statements and device outputs.                                *)
(***************************************************************************)
EnterCandidateCmd == <<"e", "n", "t", "e", "r", " ", "c", "a", "n", "d", "i", "d", "a", "t", "e">>

CommitCmd == <<"c", "o", "m", "m", "i", "t", " ", "n", "o", "w">>

DiscardCmd == <<"d", "i", "s", "c", "a", "r", "d", " ", "n", "o", "w">>

QuitCmd == <<"q", "u", "i", "t">>

InfoFlatCmd == <<"i", "n", "f", "o", " ", "f", "l", "a", "t">>

InfoJsonCmd == <<"i", "n", "f", "o", " ", "j", "s", "o", "n">>

InfoCmd == <<"i", "n", "f", "o">>

ControlCmds == {EnterCandidateCmd, CommitCmd, DiscardCmd, QuitCmd, DiffCmd}

CandidateWord == <<"c", "a", "n", "d", "i", "d", "a", "t", "e">>

ErrorWord == <<"e", "r", "r", "o", "r">>

InvalidWord == <<"i", "n", "v", "a", "l", "i", "d">>

FailedWord == <<"f", "a", "i", "l", "e", "d">>

\* statements a caller passes: two configuration statements and a blank line
StmtA == <<"s", "e", "t", " ", "a">>

StmtB == <<"s", "e", "t", " ", "b">>

BlankStmt == <<" ", "\t">>

Statements == {StmtA, StmtB, BlankStmt}

\* all sequences over S of length at most n
SeqsUpTo(S, n) == UNION {[1..k -> S] : k \in 0..n}

LineSeqs == SeqsUpTo(Statements, MaxLines)

Formats == {"flat", "json", "hierarchical"}

\* what the device writes to the shell
PromptOut == <<"-", "-", "{", " ", "}", "-", "-", "\n", "A", ":", "r", "#", " ">>

CandidateOut ==
  <<"-", "-", "{", " ", "c", "a", "n", "d", "i", "d", "a", "t", "e", " ", "}", "-", "-",
    "\n", "A", ":", "r", "#", " ">>

CandidateUpperOut ==
  <<"-", "-", "{", " ", "C", "A", "N", "D", "I", "D", "A", "T", "E", " ", "}", "-", "-",
    "\n", "A", ":", "r", "#", " ">>

ErrorOut == <<"E", "r", "r", "o", "r", ":", " ", "x", "\n", "A", ":", "r", "#", " ">>

InvalidOut == <<"I", "N", "V", "A", "L", "I", "D", "\n", "A", ":", "r", "#", " ">>

CommitFailedOut ==
  <<"C", "o", "m", "m", "i", "t", " ", "F", "A", "I", "L", "E", "D", "\n", "A", ":", "r", "#", " ">>

ConfigOut == <<"s", "e", "t", " ", "a", "\n", "\n", "-", "-", "{", " ", "}", "-", "-", "\n">>

\* the terminal's echo of the command in front of the device's answer
Echoed(cmd, body) == cmd \o <<"\n">> \o body

\* an empty output is a read that ended by deadline on a silent device
\* outputs in which the device acknowledges / does not acknowledge candidate mode
AckOutputs == { CandidateOut, CandidateUpperOut, Echoed(EnterCandidateCmd, PromptOut) }

NoAckOutputs == { <<>>, PromptOut, ErrorOut }

\* outputs in which the device accepts / rejects a statement
AcceptOutputs(line) == { <<>>, PromptOut, Echoed(line, PromptOut) }

RejectOutputs(line) == { ErrorOut, InvalidOut, Echoed(line, ErrorOut) }

StmtOutputs(line) == AcceptOutputs(line) \cup RejectOutputs(line)

\* outputs in which the device reports / does not report a failed commit
CommitOkOutputs == { <<>>, PromptOut, Echoed(CommitCmd, PromptOut) }

CommitErrorOutputs == { ErrorOut, CommitFailedOut }

CommitOutputs == CommitOkOutputs \cup CommitErrorOutputs

EnterOutputs == AckOutputs \cup NoAckOutputs

IgnoredOutputs == { PromptOut }

InfoOutputs == { <<>>, PromptOut, ConfigOut }

DiffLines ==
  { <<" ", "+", " ", "x">>,
    <<"-", "-", "-", " ", "x">>,
    <<"s", "y", "s", "t", "e", "m">>,
    DiffCmd,
    <<"-", "-", "{", " ", "+", " ", "}", "-", "-">> }

DiffOutputs == {Join(ls) : ls \in SeqsUpTo(DiffLines, MaxDiffLines)}

\* the echo of `diff` and a bracketed prompt line, nothing else
NoiseDiffOut == Join(<<DiffCmd, <<"-", "-", "{", " ", "+", " ", "}", "-", "-">> >>)

(***************************************************************************)
(* State.                                                                  *)
(***************************************************************************)
VARIABLES
  client,     \* self.client: "none" | "created" | "open" | "closed"
  shell,      \* self.shell: "none" | "open" | "closed"
  connected,  \* self.connected
  op,         \* the public operation in progress
  pc,         \* its position
  lines,      \* argument lines
  commit,     \* argument commit
  format,     \* argument format of get_config
  idx,        \* position of the for loop over lines
  output,     \* the output kept for a failure message or for get_config
  result,     \* the result dictionary of send_config
  retval,     \* the text returned by get_config / check_config_diff
  sent,       \* commands written to the shell during this operation
  outcome,    \* "idle" | "running" | "returned" | "failed" | "raised"
  failure,    \* the message of fail_json, or the exception raised
  trace,      \* history of this operation: what the device answered
  opened,     \* what connect opened since the last disconnect
  results,    \* the list execute_commands builds
  run,        \* the module main that used the Session, once it ended
  rpc,        \* position of the read loop of _send_command
  clock,      \* time.time() - start_time, in tenths of a second
  buffer,     \* the local variable output of _send_command
  reads,      \* the chunks shell.recv returned for this command
  matched,    \* number of reads when the prompt pattern first matched, or 0
  arg,        \* the argument of a function checked on its own
  val,        \* what the function returned
  fpc,        \* "idle" | "done": whether it was applied
  chpc,       \* the Session on its channel: "closed" | "opened" | "idle" | "reading"
  owed,       \* chunks the device has still to write, in their order
  inbox,      \* chunks written by the device and not yet read by the Session
  sofar,      \* the local variable output of _send_command, as chunks
  returns,       \* what _send_command returned, command by command
  _ssh_client,   \* the connection plugin's SSH client: "none" | "created" | "open"
  _shell,        \* the connection plugin's shell: "none" | "open"
  _connected,    \* the connection plugin's flag
  handles,       \* transport handles the plugin opened and nothing closed
  pcall,         \* the last call of the plugin and how it ended
  ptrace         \* history of that call: the steps that failed, what the device refused

vars ==
  <<client, shell, connected, op, pc, lines, commit, format, idx,
    output, result, retval, sent, outcome, failure, trace, opened, results, run,
    rpc, clock, buffer, reads, matched, arg, val, fpc,
    chpc, owed, inbox, sofar, returns,
    _ssh_client, _shell, _connected, handles, pcall, ptrace>>

\* the functions checked on their own
pure == <<arg, val, fpc>>

\* the shell's channel between the device and the Session, modelled on its own
channel == <<chpc, owed, inbox, sofar, returns>>

\* the connection plugin, modelled on its own
plugin == <<_ssh_client, _shell, _connected, handles, pcall, ptrace>>

apart == <<pure, channel, plugin>>

\* the read loop of _send_command, modelled on its own
reader == <<rpc, clock, buffer, reads, matched>>

\* everything else
engine ==
  <<client, shell, connected, op, pc, lines, commit, format, idx,
    output, result, retval, sent, outcome, failure, trace, opened, results, run>>

session == <<client, shell, connected>>

arguments == <<op, lines, commit, format>>

\* what the operations on the candidate configuration never touch
others == <<opened, results, run, reader, apart>>

Host == <<"h">>

NoFailure == [msg |-> "", args |-> <<>>]

TransportError == [msg |-> "socket.error", args |-> <<>>]

EmptyResult == [changed |-> FALSE, commands |-> <<>>, diff |-> <<>>]

\* entered:      enter_candidate_mode returned
\* ack:          "yes" / "no": the answer to `enter candidate` was drawn from
\*               AckOutputs / NoAckOutputs ("none": not answered)
\* rejected:     position in sent of the statement answered from RejectOutputs
\* noise_diff:   the answer to `diff` was NoiseDiffOut
\* commit_error: the answer to `commit now` was drawn from CommitErrorOutputs
\* fault:        length of sent when the transport raised, -1 when it did not
\* offline:      shell.send was called while connected was FALSE
\* noop:         connect was called while connected was TRUE
\* closes:       the close() calls of disconnect, in their order
\* answers:      the raw outputs read by execute_command(s), in their order
NoTrace ==
  [entered |-> FALSE, ack |-> "none", rejected |-> 0, noise_diff |-> FALSE,
   commit_error |-> FALSE, fault |-> -1, offline |-> FALSE, noop |-> FALSE,
   closes |-> <<>>, answers |-> <<>>]

\* client.connect() calls made, network connections and shells opened,
\* _clear_buffer calls made
NoneOpened == [attempts |-> 0, connections |-> 0, shells |-> 0, reads |-> 0]

NoRun == [main |-> "none", disconnected |-> FALSE, status |-> "running"]

NoCall ==
  [op |-> "none", config_commands |-> <<>>, written |-> <<>>,
   raised |-> NoFailure, pc |-> "idle"]

NoPluginTrace == [step |-> 0, cleanup |-> 0, refused |-> {}]

\* the state after construction, the argument of a function apart
Constructed ==
  /\ client = "none"
  /\ shell = "none"
  /\ connected = FALSE
  /\ op = "none"
  /\ pc = "idle"
  /\ lines = <<>>
  /\ commit = TRUE
  /\ format = "flat"
  /\ idx = 1
  /\ output = <<>>
  /\ result = EmptyResult
  /\ retval = <<>>
  /\ sent = <<>>
  /\ outcome = "idle"
  /\ failure = NoFailure
  /\ trace = NoTrace
  /\ opened = NoneOpened
  /\ results = <<>>
  /\ run = NoRun
  /\ rpc = "idle"
  /\ clock = 0
  /\ buffer = <<>>
  /\ reads = <<>>
  /\ matched = 0
  /\ val = <<>>
  /\ fpc = "idle"
  /\ chpc = "closed"
  /\ owed = <<>>
  /\ inbox = <<>>
  /\ sofar = <<>>
  /\ returns = <<>>
  /\ _ssh_client = "none"
  /\ _shell = "none"
  /\ _connected = FALSE
  /\ handles = 0
  /\ pcall = NoCall
  /\ ptrace = NoPluginTrace

Init == Constructed /\ arg = <<>>

(***************************************************************************)
(* Ends of an operation.  module.fail_json reports the message and ends    *)
(* the process; an exception of the transport propagates to the caller.    *)
(***************************************************************************)
fail_json(m, a) ==
  /\ pc' = "done"
  /\ outcome' = "failed"
  /\ failure' = [msg |-> m, args |-> a]

Raise ==
  /\ pc' = "done"
  /\ outcome' = "raised"
  /\ failure' = TransportError

Return ==
  /\ pc' = "done"
  /\ outcome' = "returned"
  /\ failure' = NoFailure

Goto(p) ==
  /\ pc' = p
  /\ UNCHANGED <<outcome, failure>>

(***************************************************************************)
(* connect: f is the step of connect that fails, "none" when none does.    *)
(***************************************************************************)
ConnectFaults == {"none", "connect", "invoke_shell", "recv"}

ConnectError(f) == <<f>>

connect_ok(f) == connected \/ f = "none"

\* a connect that tries client.connect() again when a step has failed
OpeningWithRetry(f) ==
  [attempts |-> IF f = "none" THEN 1 ELSE 2,
   connections |-> IF f = "connect" THEN 0 ELSE 1,
   shells |-> IF f \in {"connect", "invoke_shell"} THEN 0 ELSE 1,
   reads |-> IF f \in {"connect", "invoke_shell"} THEN 0 ELSE 1]

\* what one pass through lines 75-94 opens when step f fails: the try block
\* has no loop, client.connect() is called once
Opening(f) ==
  [attempts |-> 1,
   connections |-> IF f = "connect" THEN 0 ELSE 1,
   shells |-> IF f \in {"connect", "invoke_shell"} THEN 0 ELSE 1,
   reads |-> IF f \in {"connect", "invoke_shell"} THEN 0 ELSE 1]

Opened(f) ==
  [attempts |-> opened.attempts + Opening(f).attempts,
   connections |-> opened.connections + Opening(f).connections,
   shells |-> opened.shells + Opening(f).shells,
   reads |-> opened.reads + Opening(f).reads]

connectAlways(f) ==
  /\ client' = IF f = "connect" THEN "created" ELSE "open"
  /\ shell' = IF f \in {"connect", "invoke_shell"} THEN shell ELSE "open"
  /\ connected' = (f = "none")
  /\ opened' = Opened(f)

connect(f) ==
  /\ client' = IF connected THEN client
               ELSE IF f = "connect" THEN "created" ELSE "open"
  /\ shell' = IF connected \/ f \in {"connect", "invoke_shell"} THEN shell
              ELSE "open"
  /\ connected' = connect_ok(f)
  /\ opened' = IF connected THEN opened ELSE Opened(f)

\* a public operation may be called when none is in progress
CanCall == pc = "idle" \/ (pc = "done" /\ outcome = "returned")

\* a call of a public operation: its arguments and fresh local variables
Call(o, ls, c, fm) ==
  /\ CanCall
  /\ op' = o
  /\ lines' = ls
  /\ commit' = c
  /\ format' = fm
  /\ idx' = 1
  /\ output' = <<>>
  /\ result' = EmptyResult
  /\ retval' = <<>>
  /\ results' = <<>>
  /\ UNCHANGED <<run, reader, apart>>

\* what most calls do first: take the arguments, then self.connect()
Begin(o, ls, c, fm, f) ==
  /\ Call(o, ls, c, fm)
  /\ connected => f = "none"
  /\ sent' = <<>>
  /\ trace' = NoTrace
  /\ connect(f)

(***************************************************************************)
(* _send_command: the environment e decides whether shell.send raises,     *)
(* whether the read raises, and which output the read returns.             *)
(***************************************************************************)
Env(outs) ==
  {[fault |-> "none", out |-> o] : o \in outs}
    \cup {[fault |-> "send", out |-> <<>>], [fault |-> "recv", out |-> <<>>]}

_send_command(command, e) ==
  sent' = IF e.fault = "send" THEN sent ELSE Append(sent, command)

\* the history when the transport raised on this command
Faulted(e) ==
  [trace EXCEPT !.fault = IF e.fault = "send" THEN Len(sent) ELSE Len(sent) + 1]


(***************************************************************************)
(* The public operations up to their first command.                        *)
(***************************************************************************)
ConnectFailed(f) ==
  fail_json("Failed to connect to ", <<Host, ConnectError(f)>>)

Started ==
  /\ pc' = "enter"
  /\ outcome' = "running"
  /\ failure' = NoFailure

\* send_config, lines 282-286
SendConfigCall ==
  \E ls \in LineSeqs, c \in BOOLEAN, f \in ConnectFaults :
    /\ Begin("send_config", ls, c, "flat", f)
    /\ IF ~connect_ok(f) THEN ConnectFailed(f)
       ELSE IF ls = <<>> THEN Return
       ELSE Started

\* check_config_diff, line 388
CheckConfigDiffCall ==
  \E ls \in LineSeqs, f \in ConnectFaults :
    /\ Begin("check_config_diff", ls, TRUE, "flat", f)
    /\ IF ~connect_ok(f) THEN ConnectFailed(f) ELSE Started

\* get_config, line 246
GetConfigCall ==
  \E fm \in Formats, f \in ConnectFaults :
    /\ Begin("get_config", <<>>, TRUE, fm, f)
    /\ IF ~connect_ok(f) THEN ConnectFailed(f) ELSE Started

(***************************************************************************)
(* enter_candidate_mode, called by the three operations.                   *)
(***************************************************************************)
AfterEnter ==
  IF op = "get_config" THEN "info"
  ELSE IF lines = <<>> THEN "diff"
  ELSE "lines"

NotAcknowledgedOnError(out) == Contains(Lower(out), ErrorWord)

\* 'candidate' not in output.lower()
NotAcknowledged(out) == ~Contains(Lower(out), CandidateWord)

enter_candidate_mode ==
  /\ pc = "enter"
  /\ \E e \in Env(EnterOutputs) :
       /\ _send_command(EnterCandidateCmd, e)
       /\ IF e.fault # "none"
            THEN Raise /\ trace' = Faulted(e)
            ELSE LET answered ==
                       [trace EXCEPT !.ack = IF e.out \in AckOutputs THEN "yes" ELSE "no"]
                 IN IF NotAcknowledged(e.out)
                      THEN /\ fail_json("Failed to enter candidate mode", <<>>)
                           /\ trace' = answered
                      ELSE /\ IF op = "enter_candidate_mode" THEN Return
                              ELSE Goto(AfterEnter)
                           /\ trace' = [answered EXCEPT !.entered = TRUE]
  /\ UNCHANGED <<session, arguments, others, idx, output, result, retval>>

(***************************************************************************)
(* The loop over the lines (send_config 292-300, check_config_diff         *)
(* 392-394): one iteration per step.                                       *)
(***************************************************************************)
AfterLine == IF idx = Len(lines) THEN "diff" ELSE "lines"

IsRejectedCaseSensitive(out) ==
  Contains(out, ErrorWord) \/ Contains(out, InvalidWord)

\* 'error' in output.lower() or 'invalid' in output.lower()
IsRejected(out) ==
  Contains(Lower(out), ErrorWord) \/ Contains(Lower(out), InvalidWord)

\* if line.strip(): a blank line is not sent
SkipBlankLine ==
  /\ pc = "lines"
  /\ Strip(lines[idx]) = <<>>
  /\ idx' = idx + 1
  /\ Goto(AfterLine)
  /\ UNCHANGED <<session, arguments, others, output, result, retval, sent, trace>>

SendConfigLine ==
  /\ pc = "lines"
  /\ op = "send_config"
  /\ Strip(lines[idx]) # <<>>
  /\ \E e \in Env(StmtOutputs(lines[idx])) :
       /\ _send_command(lines[idx], e)
       /\ IF e.fault # "none"
            THEN /\ Raise
                 /\ trace' = Faulted(e)
                 /\ UNCHANGED <<idx, output, result>>
            ELSE /\ result' = [result EXCEPT !.commands = Append(@, lines[idx])]
                 /\ trace' = IF e.out \in RejectOutputs(lines[idx])
                               THEN [trace EXCEPT !.rejected = Len(sent) + 1]
                               ELSE trace
                 /\ IF IsRejected(e.out)
                      THEN /\ output' = e.out
                           /\ Goto("reject_exit")
                           /\ UNCHANGED idx
                      ELSE /\ idx' = idx + 1
                           /\ Goto(AfterLine)
                           /\ UNCHANGED output
  /\ UNCHANGED <<session, arguments, others, retval>>

RejectExitNoQuit ==
  /\ pc = "reject_exit"
  /\ fail_json("Configuration error: ", <<output>>)
  /\ UNCHANGED <<session, arguments, others, idx, output, result, retval, sent, trace>>

\* lines 299-300: exit_candidate_mode, then fail_json
RejectExit ==
  /\ pc = "reject_exit"
  /\ \E e \in Env(IgnoredOutputs) :
       /\ _send_command(QuitCmd, e)
       /\ IF e.fault # "none"
            THEN Raise /\ trace' = Faulted(e)
            ELSE fail_json("Configuration error: ", <<output>>) /\ UNCHANGED trace
  /\ UNCHANGED <<session, arguments, others, idx, output, result, retval>>

CheckDiffLine ==
  /\ pc = "lines"
  /\ op = "check_config_diff"
  /\ Strip(lines[idx]) # <<>>
  /\ \E e \in Env(StmtOutputs(lines[idx])) :
       /\ _send_command(lines[idx], e)
       /\ IF e.fault # "none"
            THEN /\ Raise
                 /\ trace' = Faulted(e)
                 /\ UNCHANGED idx
            ELSE /\ idx' = idx + 1
                 /\ Goto(AfterLine)
                 /\ trace' = IF e.out \in RejectOutputs(lines[idx])
                               THEN [trace EXCEPT !.rejected = Len(sent) + 1]
                               ELSE trace
  /\ UNCHANGED <<session, arguments, others, output, result, retval>>

(***************************************************************************)
(* send_config from the diff on.                                           *)
(***************************************************************************)
\* lines 303-304
SendConfigDiff ==
  /\ pc = "diff"
  /\ op = "send_config"
  /\ \E e \in Env(DiffOutputs) :
       /\ _send_command(DiffCmd, e)
       /\ IF e.fault # "none"
            THEN /\ Raise
                 /\ trace' = Faulted(e)
                 /\ UNCHANGED result
            ELSE /\ result' = [result EXCEPT !.diff = _clean_diff_output(e.out)]
                 /\ trace' = [trace EXCEPT !.noise_diff = (e.out = NoiseDiffOut)]
                 /\ Goto("finalize")
  /\ UNCHANGED <<session, arguments, others, idx, output, retval>>

\* 'error' in commit_output.lower() or 'failed' in commit_output.lower()
IsCommitError(out) ==
  Contains(Lower(out), ErrorWord) \/ Contains(Lower(out), FailedWord)

\* the commit of lines 322-330
DoCommit ==
  /\ result' = [result EXCEPT !.changed = TRUE]
  /\ \E e \in Env(CommitOutputs) :
       /\ _send_command(CommitCmd, e)
       /\ IF e.fault # "none"
            THEN /\ Raise
                 /\ trace' = Faulted(e)
                 /\ UNCHANGED output
            ELSE /\ trace' = [trace EXCEPT !.commit_error = (e.out \in CommitErrorOutputs)]
                 /\ IF IsCommitError(e.out)
                      THEN output' = e.out /\ Goto("commit_exit")
                      ELSE Goto("exit") /\ UNCHANGED output
  /\ UNCHANGED <<session, arguments, others, idx, retval>>

CommitUnrequested ==
  /\ pc = "finalize"
  /\ has_changes(result.diff)
  /\ DoCommit

\* lines 321-330: there are changes and a commit was requested
Commit ==
  /\ pc = "finalize"
  /\ has_changes(result.diff)
  /\ commit
  /\ DoCommit

\* lines 321-325: there are changes and no commit was requested
NoCommit ==
  /\ pc = "finalize"
  /\ has_changes(result.diff)
  /\ ~commit
  /\ result' = [result EXCEPT !.changed = TRUE]
  /\ Goto("exit")
  /\ UNCHANGED <<session, arguments, others, idx, output, retval, sent, trace>>

\* lines 331-334: no changes
Discard ==
  /\ pc = "finalize"
  /\ ~has_changes(result.diff)
  /\ result' = [result EXCEPT !.changed = FALSE]
  /\ \E e \in Env(IgnoredOutputs) :
       /\ _send_command(DiscardCmd, e)
       /\ IF e.fault # "none"
            THEN Raise /\ trace' = Faulted(e)
            ELSE Goto("exit") /\ UNCHANGED trace
  /\ UNCHANGED <<session, arguments, others, idx, output, retval>>

\* lines 329-330: exit_candidate_mode, then fail_json
CommitFailExit ==
  /\ pc = "commit_exit"
  /\ \E e \in Env(IgnoredOutputs) :
       /\ _send_command(QuitCmd, e)
       /\ IF e.fault # "none"
            THEN Raise /\ trace' = Faulted(e)
            ELSE fail_json("Commit failed: ", <<output>>) /\ UNCHANGED trace
  /\ UNCHANGED <<session, arguments, others, idx, output, result, retval>>

(***************************************************************************)
(* check_config_diff from the diff on.                                     *)
(***************************************************************************)
\* lines 397-398
CheckDiff ==
  /\ pc = "diff"
  /\ op = "check_config_diff"
  /\ \E e \in Env(DiffOutputs) :
       /\ _send_command(DiffCmd, e)
       /\ IF e.fault # "none"
            THEN /\ Raise
                 /\ trace' = Faulted(e)
                 /\ UNCHANGED retval
            ELSE /\ retval' = _clean_diff_output(e.out)
                 /\ trace' = [trace EXCEPT !.noise_diff = (e.out = NoiseDiffOut)]
                 /\ Goto("discard")
  /\ UNCHANGED <<session, arguments, others, idx, output, result>>

\* a check_config_diff that commits the candidate instead of discarding it
CheckCommits ==
  /\ pc = "discard"
  /\ \E e \in Env(IgnoredOutputs) :
       /\ _send_command(CommitCmd, e)
       /\ IF e.fault # "none"
            THEN Raise /\ trace' = Faulted(e)
            ELSE Goto("exit") /\ UNCHANGED trace
  /\ UNCHANGED <<session, arguments, others, idx, output, result, retval>>

\* line 401
CheckDiscard ==
  /\ pc = "discard"
  /\ \E e \in Env(IgnoredOutputs) :
       /\ _send_command(DiscardCmd, e)
       /\ IF e.fault # "none"
            THEN Raise /\ trace' = Faulted(e)
            ELSE Goto("exit") /\ UNCHANGED trace
  /\ UNCHANGED <<session, arguments, others, idx, output, result, retval>>

(***************************************************************************)
(* get_config between enter_candidate_mode and exit_candidate_mode.        *)
(***************************************************************************)
\* a get_config that asks for the flat form whatever the format
InfoAlwaysFlat(fm) == InfoFlatCmd

\* lines 252-257
InfoCommand(fm) ==
  IF fm = "flat" THEN InfoFlatCmd
  ELSE IF fm = "json" THEN InfoJsonCmd
  ELSE InfoCmd

\* lines 252-259
GetInfo ==
  /\ pc = "info"
  /\ \E e \in Env(InfoOutputs) :
       /\ _send_command(InfoCommand(format), e)
       /\ IF e.fault # "none"
            THEN /\ Raise
                 /\ trace' = Faulted(e)
                 /\ UNCHANGED output
            ELSE /\ output' = e.out
                 /\ Goto("exit")
                 /\ UNCHANGED trace
  /\ UNCHANGED <<session, arguments, others, idx, result, retval>>

KeepConfigLine(line) == Strip(line) # <<>> /\ ~IsBannerLine(line)

\* lines 263-269
CleanConfig(out) ==
  Strip(Join(SelectSeq(Split(_strip_ansi_codes(out)), KeepConfigLine)))

(***************************************************************************)
(* exit_candidate_mode: the last step of the three operations, and a       *)
(* public operation of its own.  It does not call connect: _send_command   *)
(* fails when self.shell was never set, and otherwise writes to the shell  *)
(* whatever self.connected is.  A closed channel refuses the write.        *)
(***************************************************************************)
ShellEnv(outs) ==
  IF shell = "closed" THEN {[fault |-> "send", out |-> <<>>]} ELSE Env(outs)

\* the history of a write to the shell
Written(t) == [t EXCEPT !.offline = @ \/ ~connected]

exit_candidate_mode ==
  /\ pc = "exit"
  /\ IF shell = "none"
       THEN /\ fail_json("Not connected to device", <<>>)
            /\ UNCHANGED <<sent, trace, retval>>
       ELSE \E e \in ShellEnv(IgnoredOutputs) :
              /\ _send_command(QuitCmd, e)
              /\ IF e.fault # "none"
                   THEN /\ Raise
                        /\ trace' = Written(Faulted(e))
                        /\ UNCHANGED retval
                   ELSE /\ Return
                        /\ retval' = IF op = "get_config" THEN CleanConfig(output)
                                     ELSE retval
                        /\ trace' = Written(trace)
  /\ UNCHANGED <<session, arguments, others, idx, output, result>>

(***************************************************************************)
(* The Session's own operations: connect, disconnect, and the public       *)
(* calls of enter_candidate_mode and exit_candidate_mode.                  *)
(***************************************************************************)
\* lines 61-100; the history notes a call made while already connected
ConnectCall ==
  \E f \in ConnectFaults :
    /\ Call("connect", <<>>, TRUE, "flat")
    /\ connected => f = "none"
    /\ sent' = <<>>
    /\ trace' = [NoTrace EXCEPT !.noop = connected]
    /\ connect(f)
    /\ IF ~connect_ok(f) THEN ConnectFailed(f) ELSE Return

\* the session disconnect leaves: shell.close(), client.close(), flag cleared
Disconnected(c, sh) ==
  [client |-> IF c # "none" THEN "closed" ELSE c,
   shell |-> IF sh # "none" THEN "closed" ELSE sh,
   connected |-> FALSE]

\* the close() calls of lines 104-107, in their order
Closes ==
  (IF shell # "none" THEN <<"shell">> ELSE <<>>)
    \o (IF client # "none" THEN <<"client">> ELSE <<>>)

disconnectKeepsFlag ==
  /\ client' = Disconnected(client, shell).client
  /\ shell' = Disconnected(client, shell).shell
  /\ connected' = connected
  /\ opened' = NoneOpened

\* lines 102-108
disconnect ==
  /\ client' = Disconnected(client, shell).client
  /\ shell' = Disconnected(client, shell).shell
  /\ connected' = Disconnected(client, shell).connected
  /\ opened' = NoneOpened

DisconnectCall ==
  /\ Call("disconnect", <<>>, TRUE, "flat")
  /\ sent' = <<>>
  /\ trace' = [NoTrace EXCEPT !.closes = Closes]
  /\ disconnect
  /\ Return

\* lines 220-222
EnterCandidateCall ==
  \E f \in ConnectFaults :
    /\ Begin("enter_candidate_mode", <<>>, TRUE, "flat", f)
    /\ IF ~connect_ok(f) THEN ConnectFailed(f) ELSE Started

\* line 232: no connect
ExitCandidateCall ==
  /\ Call("exit_candidate_mode", <<>>, TRUE, "flat")
  /\ sent' = <<>>
  /\ trace' = NoTrace
  /\ pc' = "exit"
  /\ outcome' = "running"
  /\ failure' = NoFailure
  /\ UNCHANGED <<session, opened>>

(***************************************************************************)
(* execute_command and execute_commands.  The write of a command and the   *)
(* read of its answer are two steps.                                       *)
(***************************************************************************)
ShowVersionCmd == <<"s", "h", "o", "w", " ", "v", "e", "r", "s", "i", "o", "n">>

Commands == {ShowVersionCmd, InfoFlatCmd}

CommandSeqs == SeqsUpTo(Commands, MaxCommands)

\* what the device prints for a command
Body(cmd) == IF cmd = ShowVersionCmd THEN <<"v", "1">> ELSE StmtA

\* the device's answers: nothing before the deadline; the prompt alone; the
\* body and the prompt; an error; the body and more text but no prompt
\* before the deadline; the body after an escape sequence
ExecOutputs(cmd) ==
  { <<>>,
    Echoed(cmd, PromptOut),
    Echoed(cmd, Body(cmd) \o <<"\n">> \o PromptOut),
    Echoed(cmd, ErrorOut),
    Echoed(cmd, Body(cmd) \o <<"\n", "m", "o", "r", "e">>),
    Echoed(cmd, <<ESC, "[", "0", "m">> \o Body(cmd) \o <<"\n">> \o PromptOut) }

NotBannerLine(line) == ~IsBannerLine(line)

\* lines 195-202
ExecClean(out) ==
  LET ls == Split(_strip_ansi_codes(out))
  IN Strip(Join(SelectSeq(SubSeq(ls, 2, Len(ls) - 1), NotBannerLine)))

ExecStarted ==
  /\ pc' = "exec_send"
  /\ outcome' = "running"
  /\ failure' = NoFailure

\* lines 191-192
ExecuteCommandCall ==
  \E cmd \in Commands, f \in ConnectFaults :
    /\ Begin("execute_command", <<cmd>>, TRUE, "flat", f)
    /\ IF ~connect_ok(f) THEN ConnectFailed(f) ELSE ExecStarted

\* lines 214-216: connect is called by the first execute_command, and is a
\* no-op in the later ones
ExecuteCommandsCall ==
  \E cmds \in CommandSeqs, f \in ConnectFaults :
    IF cmds = <<>>
      THEN /\ f = "none"
           /\ Call("execute_commands", cmds, TRUE, "flat")
           /\ sent' = <<>>
           /\ trace' = NoTrace
           /\ Return
           /\ UNCHANGED <<session, opened>>
      ELSE /\ Begin("execute_commands", cmds, TRUE, "flat", f)
           /\ IF ~connect_ok(f) THEN ConnectFailed(f) ELSE ExecStarted

ExecSendAhead ==
  /\ pc = "exec_send"
  /\ sent' = IF idx < Len(lines) THEN sent \o <<lines[idx], lines[idx + 1]>>
             ELSE Append(sent, lines[idx])
  /\ Goto("exec_read")
  /\ UNCHANGED <<session, arguments, others, idx, output, result, retval, trace>>

\* line 158: shell.send(command + '\n')
ExecSend ==
  /\ pc = "exec_send"
  /\ \E fault \in {"none", "send"} :
       LET e == [fault |-> fault, out |-> <<>>]
       IN /\ _send_command(lines[idx], e)
          /\ IF fault = "send"
               THEN Raise /\ trace' = Faulted(e)
               ELSE Goto("exec_read") /\ UNCHANGED trace
  /\ UNCHANGED <<session, arguments, others, idx, output, result, retval>>

\* the end of one execute_command with value v
ExecDone(v) ==
  IF op = "execute_command"
    THEN /\ retval' = v
         /\ Return
         /\ UNCHANGED <<idx, results>>
    ELSE /\ results' = Append(results, v)
         /\ idx' = idx + 1
         /\ IF idx = Len(lines) THEN Return ELSE Goto("exec_send")
         /\ UNCHANGED retval

ExecReadChecked ==
  /\ pc = "exec_read"
  /\ \E out \in ExecOutputs(lines[idx]) :
       /\ output' = out
       /\ trace' = [trace EXCEPT !.answers = Append(@, out)]
       /\ IF IsRejected(out)
            THEN /\ fail_json("Configuration error: ", <<out>>)
                 /\ UNCHANGED <<idx, results, retval>>
            ELSE ExecDone(ExecClean(out))
  /\ UNCHANGED <<session, arguments, opened, run, reader, apart, result, sent>>

\* lines 161-179 and 195-202, and line 217 in execute_commands
ExecRead ==
  /\ pc = "exec_read"
  /\ \E e \in Env(ExecOutputs(lines[idx])) :
       /\ e.fault # "send"
       /\ IF e.fault = "recv"
            THEN /\ Raise
                 /\ trace' = [trace EXCEPT !.fault = Len(sent)]
                 /\ UNCHANGED <<idx, output, results, retval>>
            ELSE /\ output' = e.out
                 /\ trace' = [trace EXCEPT !.answers = Append(@, e.out)]
                 /\ ExecDone(ExecClean(e.out))
  /\ UNCHANGED <<session, arguments, opened, run, reader, apart, result, sent>>

(***************************************************************************)
(* The module mains (plugins/modules/*.py) that use a Session.  Each runs  *)
(* its engine calls in a try block; MainExit is what main does once the    *)
(* last of its calls has ended.  An exception of the transport is caught   *)
(* by `except Exception`; the SystemExit of the engine's fail_json is not. *)
(* The process ends there: of the run only the main, the way its try block *)
(* ended and the Session's handles are kept.                               *)
(***************************************************************************)
Mains ==
  {"srlinux_config", "srlinux_command", "srlinux_resource", "srlinux_facts",
   "srlinux_backup", "srlinux_compare"}

\* the engine operations a main calls; srlinux_compare calls send_command,
\* which the Session does not have: its try block raises before any call
OpsOf(m) ==
  CASE m = "srlinux_config" -> {"check_config_diff", "send_config"}
    [] m = "srlinux_resource" -> {"check_config_diff", "send_config"}
    [] m = "srlinux_command" -> {"execute_command"}
    [] m = "srlinux_facts" -> {"execute_command", "get_config"}
    [] m = "srlinux_backup" -> {"connect", "execute_command"}
    [] m = "srlinux_compare" -> {}

\* what main reports as changed in check mode: bool(diff.strip())
\* (srlinux_config.py:207-209, srlinux_resource.py:285-287)
check_mode_changed(diff) == Strip(diff) # <<>>

\* srlinux_backup disconnects in a finally block, the others at the end of
\* the try block and in the except block
FinallyMains == {"srlinux_backup"}

\* how the try block of main m ended
TryEnded(m) ==
  IF OpsOf(m) = {} THEN IF pc = "idle" /\ op = "none" THEN "raised" ELSE "none"
  ELSE IF pc = "done" /\ op \in OpsOf(m) THEN outcome
  ELSE "none"

\* whether main m reaches one of its disconnect() calls
Releases(m, ended) == m \in FinallyMains \/ ended # "failed"

MainExit ==
  \E m \in Mains :
    /\ TryEnded(m) # "none"
    /\ pc' = "exited"
    /\ run' = [main |-> m,
               disconnected |-> Releases(m, TryEnded(m)),
               status |-> IF TryEnded(m) = "returned" THEN "exit_json"
                          ELSE "fail_json"]
    /\ IF Releases(m, TryEnded(m))
         THEN disconnect /\ trace' = [NoTrace EXCEPT !.closes = Closes]
         ELSE UNCHANGED <<session, opened>> /\ trace' = NoTrace
    /\ outcome' = TryEnded(m)
    /\ lines' = <<>>
    /\ idx' = 1
    /\ output' = <<>>
    /\ result' = EmptyResult
    /\ retval' = <<>>
    /\ sent' = <<>>
    /\ failure' = NoFailure
    /\ results' = <<>>
    /\ UNCHANGED <<op, commit, format, reader, apart>>

Next ==
  \/ SendConfigCall
  \/ CheckConfigDiffCall
  \/ GetConfigCall
  \/ enter_candidate_mode
  \/ SkipBlankLine
  \/ SendConfigLine
  \/ RejectExit
  \/ CheckDiffLine
  \/ SendConfigDiff
  \/ Commit
  \/ NoCommit
  \/ Discard
  \/ CommitFailExit
  \/ CheckDiff
  \/ CheckDiscard
  \/ GetInfo
  \/ exit_candidate_mode
  \/ ConnectCall
  \/ DisconnectCall
  \/ EnterCandidateCall
  \/ ExitCandidateCall
  \/ ExecuteCommandCall
  \/ ExecuteCommandsCall
  \/ ExecSend
  \/ ExecRead
  \/ MainExit

Spec == Init /\ [][Next]_vars

(***************************************************************************)
(* The read loop of _send_command (lines 161-179), step by step.  The      *)
(* clock counts tenths of a second from start_time.  One pass of the loop  *)
(* reads what the channel has ready, returns when the stripped output ends *)
(* in a prompt, and otherwise sleeps; a sleep takes a tenth of a second or *)
(* longer.  The device decides at every poll whether data is ready and     *)
(* which.                                                                  *)
(***************************************************************************)
\* max_wait = 30 seconds
max_wait == 30

Deadline == max_wait * 10

\* time.sleep(0.1) and the rest of a pass: a tenth of a second, or a stall
MaxDelay == 150

Delays == {1, MaxDelay}

\* what the device may have ready at a poll: text, a prompt, a prompt
\* followed by an escape sequence
Chunks ==
  { <<"x">>,
    <<"#", " ">>,
    <<"A", ">", ESC, "[", "0", "m">> }

\* re.search(r'[#>]\s*$', clean_output)
EndsWithPrompt(t) ==
  \E i \in 1..Len(t) :
    /\ t[i] \in {"#", ">"}
    /\ \A j \in (i + 1)..Len(t) : t[j] \in WhiteSpace

ExpiredNever == FALSE

\* not (time.time() - start_time < max_wait)
Expired == clock >= Deadline

\* line 158 and lines 162-165: the command is written, the loop starts
Send ==
  /\ rpc \in {"idle", "returned", "raised"}
  /\ rpc' = "poll"
  /\ clock' = 0
  /\ buffer' = <<>>
  /\ reads' = <<>>
  /\ matched' = 0
  /\ UNCHANGED <<engine, apart>>

\* line 177
Sleep ==
  /\ \E d \in Delays : clock' = clock + d
  /\ UNCHANGED rpc

PollKeepsReading(chunk) ==
  /\ buffer' = buffer \o chunk
  /\ reads' = Append(reads, chunk)
  /\ matched' = IF matched = 0 /\ EndsWithPrompt(_strip_ansi_codes(buffer \o chunk))
                  THEN Len(reads) + 1 ELSE matched
  /\ Sleep

\* lines 169-177: a chunk is read; break when the stripped output ends in a
\* prompt
PollReady(chunk) ==
  /\ buffer' = buffer \o chunk
  /\ reads' = Append(reads, chunk)
  /\ IF EndsWithPrompt(_strip_ansi_codes(buffer \o chunk))
       THEN /\ matched' = Len(reads) + 1
            /\ rpc' = "returned"
            /\ UNCHANGED clock
       ELSE /\ UNCHANGED matched
            /\ Sleep

\* lines 167-177: one pass of the loop
Poll ==
  /\ rpc = "poll"
  /\ ~Expired
  /\ \/ /\ Sleep
        /\ UNCHANGED <<buffer, reads, matched>>
     \/ /\ Len(reads) < MaxChunks
        /\ \E chunk \in Chunks : PollReady(chunk)
  /\ UNCHANGED <<engine, apart>>

\* recv raises: the exception leaves _send_command
RecvRaises ==
  /\ rpc = "poll"
  /\ ~Expired
  /\ rpc' = "raised"
  /\ UNCHANGED <<clock, buffer, reads, matched, engine, apart>>

\* lines 167 and 179: the deadline has passed, the output so far is returned
Timeout ==
  /\ rpc = "poll"
  /\ Expired
  /\ rpc' = "returned"
  /\ UNCHANGED <<clock, buffer, reads, matched, engine, apart>>

NextReader ==
  \/ Send
  \/ Poll
  \/ RecvRaises
  \/ Timeout

SpecReader == Init /\ [][NextReader]_vars

\* the process runs: a loop that can take a step takes it
SpecReaderFair == SpecReader /\ WF_vars(Poll \/ Timeout)

(***************************************************************************)
(* _strip_ansi_codes on its own: an argument made of pieces of escape      *)
(* sequences, the function applied to it and then to its own result.       *)
(***************************************************************************)
NormPieces ==
  { <<ESC>>,
    <<"[">>,
    <<"=">>,
    <<"m">>,
    <<"?", "2", "5", ";">>,
    <<"]", "0", "x", BEL>>,
    <<"(", "B">>,
    <<ESC, ">">>,
    <<NUL, "\n">>,
    <<DEL>> }

\* the pieces joined
Concat(ps) ==
  LET f[i \in 0..Len(ps)] == IF i = 0 THEN <<>> ELSE f[i - 1] \o ps[i]
  IN f[Len(ps)]

NormTexts == {Concat(ps) : ps \in SeqsUpTo(NormPieces, MaxPieces)}

InitNormalizer == Constructed /\ arg \in NormTexts

Normalize ==
  /\ Len(val) < 2
  /\ val' = Append(val, _strip_ansi_codes(IF val = <<>> THEN arg ELSE val[Len(val)]))
  /\ fpc' = "done"
  /\ UNCHANGED <<arg, engine, reader, channel, plugin>>

NextNormalizer == Normalize

SpecNormalizer == InitNormalizer /\ [][NextNormalizer]_vars

(***************************************************************************)
(* srlinux_compare: main (lines 185-229) with its arguments.  arg holds    *)
(* intended_config and the text the device holds for `info flat <path>`.   *)
(***************************************************************************)
\* the characters of the alphabet in the order of their code points
CodePoints ==
  <<NUL, BEL, "\t", "\n", FF, "\r", ESC, " ", "#", "(", "+", "-", "/">>
    \o <<"0", "1", "2", "3", "4", "5", "6", "7", "8", "9", ":", ";", "=", ">", "?">>
    \o UpperSeq \o <<"[", "]">> \o LowerSeq \o <<"{", "}", DEL>>

Ord(c) == CHOOSE i \in 1..Len(CodePoints) : CodePoints[i] = c

\* a < b on str
StrLess(a, b) ==
  \E k \in 1..(Len(b)) :
    /\ \A j \in 1..(k - 1) : j <= Len(a) /\ a[j] = b[j]
    /\ k - 1 <= Len(a)
    /\ k > Len(a) \/ Ord(a[k]) < Ord(b[k])

\* sorted(list(S))
RECURSIVE Sorted(_)
Sorted(S) ==
  IF S = {} THEN <<>>
  ELSE LET least == CHOOSE x \in S : \A y \in S : y = x \/ StrLess(x, y)
       IN <<least>> \o Sorted(S \ {least})

SetToken == <<"s", "e", "t", " ">>

\* lines 191-195 and 198-202: the stripped lines that start with 'set '
SetLines(ls) ==
  {Strip(ls[i]) : i \in {j \in 1..Len(ls) : StartsWith(Strip(ls[j]), SetToken)}}

running_lines(running_output) == SetLines(Split(running_output))

intended_lines(intended_config) == SetLines(intended_config)

\* f'+ {line}' / f'- {line}' for each line
Prefixed(sign, ls) == [i \in 1..Len(ls) |-> <<sign, " ">> \o ls[i]]

\* lines 204-218: the fields of result that the comparison sets
DriftReport(intended_config, running_output) ==
  LET missing == intended_lines(intended_config) \ running_lines(running_output)
      extra == running_lines(running_output) \ intended_lines(intended_config)
      diff_lines == Prefixed("+", Sorted(missing)) \o Prefixed("-", Sorted(extra))
  IN [changed |-> FALSE,
      has_drift |-> missing # {} \/ extra # {},
      diff |-> Join(diff_lines),
      missing |-> Sorted(missing),
      extra |-> Sorted(extra)]

\* the methods of SRLinuxConnection
SessionMethods ==
  {"connect", "disconnect", "_clear_buffer", "_strip_ansi_codes",
   "_send_command", "execute_command", "execute_commands",
   "enter_candidate_mode", "exit_candidate_mode", "get_config", "send_config",
   "_clean_diff_output", "check_config_diff"}

\* the lines of an intended configuration or of a device answer
CompareLines ==
  { <<"s", "e", "t", " ", "a">>,
    <<" ", "s", "e", "t", " ", "a", "\r">>,
    <<"s", "e", "t", " ", "B">>,
    <<"s", "e", "t", "a">>,
    <<"A", ":", "r", "#", " ">>,
    <<>> }

InitCompare ==
  /\ Constructed
  /\ \E i \in SeqsUpTo(CompareLines, MaxIntended) :
       \E o \in SeqsUpTo(CompareLines, MaxObserved) :
         arg = [intended |-> i, observed |-> Join(o)]

\* line 190 looks up connection.send_command: without such a method the
\* AttributeError takes the except branch (lines 225-227), with it the try
\* block runs to its end (lines 191-223); disconnect() is called either way
CompareMain ==
  /\ fpc = "idle"
  /\ IF "send_command" \in SessionMethods
       THEN /\ val' = DriftReport(arg.intended, arg.observed)
            /\ run' = [main |-> "srlinux_compare", disconnected |-> TRUE,
                       status |-> "exit_json"]
       ELSE /\ val' = [failed |-> TRUE,
                       msg |-> "Configuration comparison failed",
                       error |-> "AttributeError"]
            /\ run' = [main |-> "srlinux_compare", disconnected |-> TRUE,
                       status |-> "fail_json"]
  /\ disconnect
  /\ fpc' = "done"
  /\ UNCHANGED <<arg, op, pc, lines, commit, format, idx, output, result,
                 retval, sent, outcome, failure, trace, results, reader, channel, plugin>>

NextCompare == CompareMain

SpecCompare == InitCompare /\ [][NextCompare]_vars

(***************************************************************************)
(* _clean_diff_output (lines 341-376) on its own.                          *)
(***************************************************************************)
\* lines of an answer to `diff`
CleanerLines ==
  { <<"+">>,
    <<" ", "+", " ", "x">>,
    <<"-", "-", "{", " ", "+", " ", "}", "-", "-">>,
    <<"A", ":", "r", "#", " ">>,
    <<" ", "d", "i", "f", "f", "\r">>,
    <<" ">>,
    <<"*">>,
    <<"[">>,
    <<ESC, "[", "m">> }

CleanerTexts == {Join(ls) : ls \in SeqsUpTo(CleanerLines, MaxCleanerLines)}

InitCleaner == Constructed /\ arg \in CleanerTexts

Clean ==
  /\ fpc = "idle"
  /\ val' = _clean_diff_output(arg)
  /\ fpc' = "done"
  /\ UNCHANGED <<arg, engine, reader, channel, plugin>>

NextCleaner == Clean

SpecCleaner == InitCleaner /\ [][NextCleaner]_vars

(***************************************************************************)
(* The checks made on the answer to a command (enter_candidate_mode, line  *)
(* 225; send_config, line 298), on their own.  What _send_command returns  *)
(* is all that was read (lines 169-170): the terminal's echo of the        *)
(* command, when there is one, and the text of the device.                 *)
(***************************************************************************)
StmtErrors == <<"s", "e", "t", " ", "e", "r", "r", "o", "r", "s">>

StmtInvalid == <<"s", "e", "t", " ", "I", "N", "V", "A", "L", "I", "D">>

AnsweredCmds == {EnterCandidateCmd, StmtA, StmtB, StmtErrors, StmtInvalid}

DeviceTexts ==
  {<<>>, PromptOut, CandidateOut, CandidateUpperOut, ErrorOut, InvalidOut,
   CommitFailedOut}

InitAnswer ==
  /\ Constructed
  /\ arg \in [command : AnsweredCmds, echo : BOOLEAN, text : DeviceTexts]

CheckAnswer ==
  /\ fpc = "idle"
  /\ LET out == IF arg.echo THEN Echoed(arg.command, arg.text) ELSE arg.text
     IN val' = IF arg.command = EnterCandidateCmd
                 THEN [acknowledged |-> ~NotAcknowledged(out)]
                 ELSE [rejected |-> IsRejected(out)]
  /\ fpc' = "done"
  /\ UNCHANGED <<arg, engine, reader, channel, plugin>>

NextAnswer == CheckAnswer

SpecAnswer == InitAnswer /\ [][NextAnswer]_vars

(***************************************************************************)
(* The shell's channel, modelled on its own: the device writes its banner  *)
(* and its answers when it is ready to, the Session reads what has arrived *)
(* (connect, lines 88-97; _clear_buffer, lines 110-113; _send_command,     *)
(* lines 158-179).  A chunk is tagged with the command it answers, 0 for   *)
(* the banner.  shell.recv(65535) returns all that has arrived.            *)
(***************************************************************************)
\* a burst of the device: one to MaxChunks chunks, written in answer to n
Bursts(n) ==
  {[i \in 1..Len(ts) |-> [of |-> n, text |-> ts[i]]] :
     ts \in SeqsUpTo(Chunks, MaxChunks) \ {<<>>}}

\* the text of a sequence of chunks
TextOf(cs) == Concat([i \in 1..Len(cs) |-> cs[i].text])

\* the device writes its next chunk
DeviceWrites ==
  /\ owed # <<>>
  /\ inbox' = Append(inbox, Head(owed))
  /\ owed' = Tail(owed)
  /\ UNCHANGED <<chpc, sofar, returns, engine, reader, pure, plugin>>

\* lines 88-89: the shell is opened, the device owes its banner and prompt
InvokeShell ==
  /\ chpc = "closed"
  /\ \E b \in Bursts(0) : owed' = b
  /\ chpc' = "opened"
  /\ UNCHANGED <<inbox, sofar, returns, engine, reader, pure, plugin>>

\* lines 92-96, after time.sleep(1): one read of what has arrived, if any
_clear_buffer ==
  /\ chpc = "opened"
  /\ inbox' = <<>>
  /\ chpc' = "idle"
  /\ UNCHANGED <<owed, sofar, returns, engine, reader, pure, plugin>>

\* lines 158-165: the command is written, the device owes its answer
ChannelSend ==
  /\ chpc = "idle"
  /\ Len(returns) < MaxCommands
  /\ \E a \in Bursts(Len(returns) + 1) : owed' = owed \o a
  /\ sofar' = <<>>
  /\ chpc' = "reading"
  /\ UNCHANGED <<inbox, returns, engine, reader, pure, plugin>>

\* lines 168-177: recv_ready, so all that has arrived is read; the loop ends
\* when the stripped output ends in a prompt
ChannelPoll ==
  /\ chpc = "reading"
  /\ inbox # <<>>
  /\ inbox' = <<>>
  /\ IF EndsWithPrompt(_strip_ansi_codes(TextOf(sofar \o inbox)))
       THEN /\ returns' = Append(returns, sofar \o inbox)
            /\ sofar' = <<>>
            /\ chpc' = "idle"
       ELSE /\ sofar' = sofar \o inbox
            /\ UNCHANGED <<returns, chpc>>
  /\ UNCHANGED <<owed, engine, reader, pure, plugin>>

\* lines 167 and 179: max_wait has passed, the output so far is returned
ChannelTimeout ==
  /\ chpc = "reading"
  /\ returns' = Append(returns, sofar)
  /\ sofar' = <<>>
  /\ chpc' = "idle"
  /\ UNCHANGED <<owed, inbox, engine, reader, pure, plugin>>

NextChannel ==
  \/ DeviceWrites
  \/ InvokeShell
  \/ _clear_buffer
  \/ ChannelSend
  \/ ChannelPoll
  \/ ChannelTimeout

SpecChannel == Init /\ [][NextChannel]_vars

(***************************************************************************)
(* The connection plugin (plugins/connection/srlinux.py), modelled on its  *)
(* own.  Every call is one action; which step of the call the transport    *)
(* fails at, and what the device answers, is the environment's choice.     *)
(***************************************************************************)

\* open transports the plugin may hold at once
MaxHandles == 4

\* _connect, lines 114-148: past the guard
PluginConnect(f) ==
  /\ _ssh_client' = IF f = "connect" THEN "created" ELSE "open"
  /\ _shell' = IF f \in {"connect", "invoke_shell"} THEN _shell ELSE "open"
  /\ _connected' = (f = "none")
  /\ handles' = handles + Opening(f).connections + Opening(f).shells

PluginConnectFailed(f) ==
  [msg |-> "Failed to connect to ", args |-> <<Host, ConnectError(f)>>]

_connect ==
  \E f \in ConnectFaults :
    /\ pcall.pc = "idle"
    /\ IF _connected
         THEN /\ f = "none"
              /\ UNCHANGED <<_ssh_client, _shell, _connected, handles>>
         ELSE /\ handles + 2 <= MaxHandles
              /\ PluginConnect(f)
    /\ pcall' = [NoCall EXCEPT !.op = "_connect",
                               !.raised = IF f = "none" THEN NoFailure
                                          ELSE PluginConnectFailed(f)]
    /\ ptrace' = NoPluginTrace
    /\ UNCHANGED <<engine, reader, pure, channel>>

\* close, lines 150-160
close ==
  /\ pcall.pc = "idle"
  /\ IF _connected
       THEN /\ handles' = handles - (IF _shell = "open" THEN 1 ELSE 0)
                                  - (IF _ssh_client = "open" THEN 1 ELSE 0)
            /\ _connected' = FALSE
            /\ _shell' = "none"
            /\ _ssh_client' = "none"
       ELSE UNCHANGED <<_ssh_client, _shell, _connected, handles>>
  /\ pcall' = [NoCall EXCEPT !.op = "close"]
  /\ ptrace' = NoPluginTrace
  /\ UNCHANGED <<engine, reader, pure, channel>>

\* what send_config writes when nothing fails, lines 200-227
Script(cmds) == <<EnterCandidateCmd>> \o cmds \o <<CommitCmd, QuitCmd>>

\* the except branch, lines 231-238: discard now, quit, one read; g is the
\* step of these that fails, 0 when none does
CleanupSteps == 0 .. 3

CleanupWritten(g) ==
  CASE g = 1 -> <<>>
    [] g = 2 -> <<DiscardCmd>>
    [] OTHER -> <<DiscardCmd, QuitCmd>>

\* step 2j - 1 writes the j-th command of the script, step 2j reads after it
StepError(k) == <<"step", k>>

CleanupError(g) == <<"cleanup", g>>

\* a failure of the cleanup replaces the original error
SendConfigFailedByCleanup(k, g) ==
  [msg |-> "Failed to send configuration: ",
   args |-> <<IF g = 0 THEN StepError(k) ELSE CleanupError(g)>>]

\* line 239
SendConfigFailed(k, g) ==
  [msg |-> "Failed to send configuration: ", args |-> <<StepError(k)>>]

DeviceAnswers == {PromptOut, ErrorOut, InvalidOut}

\* send_config, lines 195-198: the call and the connection it needs
PluginSendConfig ==
  \E cmds \in LineSeqs, f \in ConnectFaults :
    /\ pcall.pc = "idle"
    /\ IF _connected
         THEN /\ f = "none"
              /\ UNCHANGED <<_ssh_client, _shell, _connected, handles>>
         ELSE /\ handles + 2 <= MaxHandles
              /\ PluginConnect(f)
    /\ pcall' = [op |-> "send_config", config_commands |-> cmds,
                 written |-> <<>>,
                 raised |-> IF f = "none" THEN NoFailure
                            ELSE PluginConnectFailed(f),
                 pc |-> IF f = "none" THEN "script" ELSE "idle"]
    /\ ptrace' = NoPluginTrace
    /\ UNCHANGED <<engine, reader, pure, channel>>

\* lines 200-227: the next command of the script is written and the shell is
\* read; the response is not looked at.  Either call of the shell may raise.
PluginScriptStep ==
  /\ pcall.pc = "script"
  /\ LET script == Script(pcall.config_commands)
         j == Len(pcall.written) + 1
     IN \/ /\ pcall' = [pcall EXCEPT !.pc = "cleanup"]
           /\ ptrace' = [ptrace EXCEPT !.step = 2 * j - 1]
        \/ /\ pcall' = [pcall EXCEPT !.written = Append(@, script[j]),
                                     !.pc = "cleanup"]
           /\ ptrace' = [ptrace EXCEPT !.step = 2 * j]
        \/ \E answer \in DeviceAnswers :
             /\ pcall' = [pcall EXCEPT !.written = Append(@, script[j]),
                                       !.pc = IF j = Len(script) THEN "idle"
                                              ELSE "script"]
             /\ ptrace' =
                  [ptrace EXCEPT !.refused =
                     IF j - 1 \in 1 .. Len(pcall.config_commands)
                        /\ IsRejected(answer)
                       THEN @ \cup {j - 1} ELSE @]
  /\ UNCHANGED <<_ssh_client, _shell, _connected, handles>>
  /\ UNCHANGED <<engine, reader, pure, channel>>

\* lines 229-239
PluginCleanup ==
  /\ pcall.pc = "cleanup"
  /\ \E g \in CleanupSteps :
       /\ pcall' = [pcall EXCEPT !.written = @ \o CleanupWritten(g),
                                 !.raised = SendConfigFailed(ptrace.step, g),
                                 !.pc = "idle"]
       /\ ptrace' = [ptrace EXCEPT !.cleanup = g]
  /\ UNCHANGED <<_ssh_client, _shell, _connected, handles>>
  /\ UNCHANGED <<engine, reader, pure, channel>>

NextPlugin ==
  _connect \/ close \/ PluginSendConfig \/ PluginScriptStep \/ PluginCleanup

SpecPlugin == Init /\ [][NextPlugin]_vars

(***************************************************************************)
(* Vocabulary of the properties.                                           *)
(***************************************************************************)
Count(cmd) == Cardinality({i \in 1..Len(sent) : sent[i] = cmd})

WasSent(cmd) == \E i \in 1..Len(sent) : sent[i] = cmd

IsNonBlank(line) == Strip(line) # <<>>

\* the commands written after position k
SentAfter(k) == SubSeq(sent, k + 1, Len(sent))

\* send_config ended without an exception of the transport
EndedByDevice ==
  /\ op = "send_config"
  /\ pc = "done"
  /\ outcome \in {"returned", "failed"}

\* the two-part rule for real changes, stated on the lines of the diff
SignedLine(line) ==
  LET s == Strip(line)
  IN /\ Len(s) >= 1
     /\ s[1] \in {"+", "-"}
     /\ ~(Len(s) >= 3 /\ s[2] = s[1] /\ s[3] = s[1])

TwoPartRule(diff) ==
  LET ls == Split(diff)
  IN \/ \E i \in 1..Len(ls) : SignedLine(ls[i])
     \/ /\ \E i \in 1..Len(ls) : \E k \in Keywords : Contains(ls[i], k)
        /\ \E j \in 1..Len(diff) : diff[j] \in {"+", "-"}

\* send_config got past the commit-or-discard decision and the transport
\* did not raise
PastFinalize ==
  /\ op = "send_config"
  /\ trace.entered
  /\ trace.rejected = 0
  /\ \/ pc \in {"exit", "commit_exit"}
     \/ pc = "done" /\ outcome \in {"returned", "failed"}

(***************************************************************************)
(* C1: when send_config entered candidate mode and ended by returning or   *)
(* by a failure it reports from the device's answers (statements accepted  *)
(* or rejected at any position), it sent as many `enter candidate` as      *)
(* `quit` commands.                                                        *)
(***************************************************************************)
C1_EnterMatchesQuit ==
  (EndedByDevice /\ trace.entered) =>
    /\ Count(EnterCandidateCmd) = 1
    /\ Count(QuitCmd) = Count(EnterCandidateCmd)

\* the second of two statements was rejected and the operation failed
C1_Witness ==
  /\ EndedByDevice
  /\ trace.entered
  /\ outcome = "failed"
  /\ trace.rejected = 3
  /\ Count(QuitCmd) = 1

(***************************************************************************)
(* C2 (as claimed): after a rejected statement the commands sent are       *)
(* exactly `discard now` followed by `quit`.                               *)
(***************************************************************************)
C2_DiscardThenQuitAfterRejection ==
  (EndedByDevice /\ trace.rejected > 0) =>
    SentAfter(trace.rejected) = <<DiscardCmd, QuitCmd>>

(***************************************************************************)
(* C3: once the device answered a statement of send_config with an         *)
(* error/invalid marker, no statement, `diff` or `commit now` is sent      *)
(* after it, the operation never returns a result, and unless the          *)
(* transport raises it ends with the failure "Configuration error" that    *)
(* carries the device's text.                                              *)
(***************************************************************************)
C3_RejectionAborts ==
  (op = "send_config" /\ trace.rejected > 0) =>
    /\ pc \in {"reject_exit", "done"}
    /\ \A i \in (trace.rejected + 1)..Len(sent) :
         sent[i] \notin Range(lines) \cup {DiffCmd, CommitCmd}
    /\ outcome # "returned"
    /\ EndedByDevice =>
         /\ outcome = "failed"
         /\ failure.msg = "Configuration error: "
         /\ failure.args = <<output>>
         /\ output \in RejectOutputs(sent[trace.rejected])

\* the first of two non-blank statements was rejected
C3_Witness ==
  /\ EndedByDevice
  /\ trace.rejected = 2
  /\ Len(lines) = 2
  /\ IsNonBlank(lines[2])
  /\ outcome = "failed"

(***************************************************************************)
(* C4 (as claimed): in a run of send_config that entered candidate mode    *)
(* and had no rejected statement, exactly one of `commit now` and          *)
(* `discard now` is sent after `diff` and before the final `quit`.         *)
(***************************************************************************)
C4_OneCommitOrDiscard ==
  (EndedByDevice /\ trace.entered /\ trace.rejected = 0) =>
    \E d \in 1..Len(sent) :
      /\ sent[d] = DiffCmd
      /\ Len(sent) = d + 2
      /\ sent[d + 1] \in {CommitCmd, DiscardCmd}
      /\ sent[d + 2] = QuitCmd

(***************************************************************************)
(* C5 (as claimed): without a rejection the commands are `enter            *)
(* candidate`, the non-blank statements in the caller's order, `diff`,     *)
(* the commit-or-discard command, `quit`; and `quit` is the last command   *)
(* of every run that entered candidate mode.                               *)
(***************************************************************************)
C5_CommandOrder ==
  (EndedByDevice /\ trace.entered) =>
    /\ sent[Len(sent)] = QuitCmd
    /\ trace.rejected = 0 =>
         \E x \in {CommitCmd, DiscardCmd} :
           sent = <<EnterCandidateCmd>> \o SelectSeq(lines, IsNonBlank)
                    \o <<DiffCmd, x, QuitCmd>>

(***************************************************************************)
(* C6: the result send_config returns has changed = TRUE exactly when the  *)
(* cleaned diff has a line that, trimmed, begins with + or - but not with  *)
(* +++ or ---, or has a line with one of the four keywords while the diff  *)
(* contains a + or - character.                                            *)
(***************************************************************************)
C6_ChangedIffTwoPartRule ==
  (op = "send_config" /\ pc = "done" /\ outcome = "returned") =>
    (result.changed <=> TwoPartRule(result.diff))

\* changed by the keyword part of the rule alone
C6_Witness ==
  /\ op = "send_config"
  /\ pc = "done"
  /\ outcome = "returned"
  /\ result.changed
  /\ \A i \in 1..Len(Split(result.diff)) : ~SignedLine(Split(result.diff)[i])

(***************************************************************************)
(* C7: `commit now` is sent only if commit was requested and the diff has  *)
(* real changes, and is sent whenever both hold; without real changes      *)
(* `discard now` is sent and `commit now` is not; a diff answer made of    *)
(* the `diff` line and a bracketed prompt line gives changed = FALSE and   *)
(* no commit.                                                              *)
(***************************************************************************)
C7_CommitIffRequestedAndChanged ==
  op = "send_config" =>
    /\ WasSent(CommitCmd) => commit /\ TwoPartRule(result.diff)
    /\ PastFinalize =>
         /\ (commit /\ TwoPartRule(result.diff)) => WasSent(CommitCmd)
         /\ ~TwoPartRule(result.diff) => WasSent(DiscardCmd) /\ ~WasSent(CommitCmd)
    /\ trace.noise_diff =>
         /\ result.diff = <<>>
         /\ ~result.changed
         /\ ~WasSent(CommitCmd)
         /\ pc # "finalize" => (outcome = "raised" \/ WasSent(DiscardCmd))

\* commit requested, the diff answer is only noise, the run returned
C7_Witness ==
  /\ op = "send_config"
  /\ pc = "done"
  /\ outcome = "returned"
  /\ commit
  /\ trace.noise_diff
  /\ WasSent(DiscardCmd)

(***************************************************************************)
(* C8 (as claimed): when the answer to `commit now` has an error/failure   *)
(* marker, send_config sends `discard now`, then `quit`, then fails with   *)
(* "Commit failed" and the device's text.                                  *)
(***************************************************************************)
C8_DiscardThenQuitAfterCommitError ==
  (EndedByDevice /\ trace.commit_error) =>
    /\ \E c \in 1..Len(sent) :
         sent[c] = CommitCmd /\ SentAfter(c) = <<DiscardCmd, QuitCmd>>
    /\ outcome = "failed"
    /\ failure = [msg |-> "Commit failed: ", args |-> <<output>>]

(***************************************************************************)
(* C9: when the answer to `enter candidate` does not contain 'candidate'   *)
(* the operation (send_config, get_config or check_config_diff) fails with *)
(* "Failed to enter candidate mode" and `enter candidate` is the only      *)
(* command it ever sent.                                                   *)
(***************************************************************************)
C9_NoAckFailsAndSendsNothing ==
  trace.ack = "no" =>
    /\ pc = "done"
    /\ outcome = "failed"
    /\ failure.msg = "Failed to enter candidate mode"
    /\ sent = <<EnterCandidateCmd>>
    /\ ~trace.entered

\* check_config_diff with statements to send, entry not acknowledged
C9_Witness ==
  /\ trace.ack = "no"
  /\ op = "check_config_diff"
  /\ lines # <<>>
  /\ pc = "done"

(***************************************************************************)
(* C10 (as claimed): when the transport raises in send_config after        *)
(* candidate mode was entered, `discard now` and `quit` are sent before    *)
(* the exception reaches the caller.                                       *)
(***************************************************************************)
C10_CleanupOnTransportFailure ==
  (op = "send_config" /\ pc = "done" /\ outcome = "raised" /\ trace.entered) =>
    /\ failure = TransportError
    /\ SentAfter(trace.fault) = <<DiscardCmd, QuitCmd>>

(***************************************************************************)
(* C11 (as claimed): when a statement was rejected or the commit failed    *)
(* and the `quit` that follows fails in the transport, send_config still   *)
(* ends with the original failure ("Configuration error" / "Commit         *)
(* failed") carrying the device's text, not with the error of the cleanup. *)
(***************************************************************************)
C11_OriginalFailureSurvivesCleanup ==
  (op = "send_config" /\ pc = "done" /\ trace.fault >= 0) =>
    /\ trace.rejected > 0 =>
         /\ outcome = "failed"
         /\ failure = [msg |-> "Configuration error: ", args |-> <<output>>]
    /\ trace.commit_error =>
         /\ outcome = "failed"
         /\ failure = [msg |-> "Commit failed: ", args |-> <<output>>]

(***************************************************************************)
(* C12 (as claimed): whatever sequence of public operations was called,    *)
(* text is written to the shell only while connected is TRUE: no write     *)
(* was attempted while it was FALSE, and an operation that writes runs     *)
(* connected.                                                              *)
(***************************************************************************)
C12_SendsOnlyWhileConnected ==
  /\ ~trace.offline
  /\ (pc \notin {"idle", "done", "exited"} /\ op # "exit_candidate_mode") => connected

(***************************************************************************)
(* C13 (as claimed): every run of a module main that created a Session     *)
(* calls disconnect before it ends, whether its engine calls returned,     *)
(* raised, or ended in a failure the engine reported through fail_json.    *)
(***************************************************************************)
C13_DisconnectOnEveryExit ==
  pc = "exited" => run.disconnected

(***************************************************************************)
(* C14: a call that runs connect while connected is TRUE (connect itself   *)
(* or the auto-connect of another operation) leaves client, shell and      *)
(* connected as they are, opens nothing and does not read the channel;     *)
(* between two disconnects at most one network connection and one shell    *)
(* are opened, and exactly one of each while connected.                    *)
(***************************************************************************)
OneOpened == [attempts |-> 1, connections |-> 1, shells |-> 1, reads |-> 1]

CalledWhileConnected ==
  /\ CanCall
  /\ connected
  /\ pc' # "exited"
  /\ op' # "disconnect"

C14_ConnectIdempotent ==
  /\ [](/\ opened.connections <= 1
        /\ opened.shells <= 1
        /\ connected => opened = OneOpened)
  /\ [][CalledWhileConnected => (session' = session /\ opened' = opened)]_vars

\* connect() returned on a Session that was already connected
C14_Witness ==
  /\ op = "connect"
  /\ pc = "done"
  /\ outcome = "returned"
  /\ trace.noop
  /\ connected
  /\ opened = OneOpened

(***************************************************************************)
(* C15: disconnect returns in every state of the Session (never            *)
(* connected, partially initialised by a failed connect, connected,        *)
(* already disconnected); it closes the shell before the client, each when *)
(* it exists, leaves connected FALSE, and a second disconnect changes      *)
(* nothing.                                                                *)
(***************************************************************************)
AfterDisconnect ==
  \/ op = "disconnect" /\ pc = "done"
  \/ pc = "exited" /\ run.disconnected

ShellBeforeClient ==
  /\ trace.closes \in {<<>>, <<"shell">>, <<"client">>, <<"shell", "client">>}
  /\ (shell = "closed") <=> (\E i \in 1..Len(trace.closes) : trace.closes[i] = "shell")
  /\ (client = "closed") <=> (\E i \in 1..Len(trace.closes) : trace.closes[i] = "client")

C15_DisconnectAnyState ==
  /\ LET once == Disconnected(client, shell)
     IN Disconnected(once.client, once.shell) = once
  /\ AfterDisconnect =>
       /\ ~connected
       /\ client \in {"none", "closed"}
       /\ shell \in {"none", "closed"}
       /\ ShellBeforeClient
       /\ Disconnected(client, shell) =
            [client |-> client, shell |-> shell, connected |-> connected]
  /\ (op = "disconnect" /\ pc = "done") => outcome = "returned"

\* disconnect after a connect that failed at invoke_shell: only the client
\* exists and is closed
C15_Witness ==
  /\ AfterDisconnect
  /\ client = "closed"
  /\ shell = "none"
  /\ trace.closes = <<"client">>

(***************************************************************************)
(* Vocabulary of the properties of the read loop.                          *)
(***************************************************************************)
\* the first k chunks read, joined
Received(k) ==
  LET RECURSIVE cat(_)
      cat(n) == IF n = 0 THEN <<>> ELSE cat(n - 1) \o reads[n]
  IN cat(k)

ReadEnded == rpc \in {"returned", "raised"}

(***************************************************************************)
(* C16: a read that never sees a prompt ends once the 30 seconds of        *)
(* max_wait have elapsed, whether the device is silent or keeps writing    *)
(* without a prompt: every started read ends, the loop is not entered      *)
(* after the deadline, a read that returns without a prompt returns at or  *)
(* after the deadline with all that was received, and the deadline itself  *)
(* raises nothing.                                                         *)
(***************************************************************************)
C16_ReadEndsAtDeadline ==
  /\ [](rpc = "poll" => clock < Deadline + MaxDelay)
  /\ []((rpc = "returned" /\ matched = 0) =>
          /\ clock >= Deadline
          /\ buffer = Received(Len(reads))
          /\ ~EndsWithPrompt(_strip_ansi_codes(buffer)))
  /\ [](clock >= Deadline => rpc # "raised")
  /\ (rpc = "poll" ~> ReadEnded)

\* the device wrote at every poll, never a prompt, and the read returned
C16_Witness ==
  /\ rpc = "returned"
  /\ matched = 0
  /\ clock >= Deadline
  /\ Len(reads) = MaxChunks
  /\ buffer # <<>>

(***************************************************************************)
(* C17: the read returns at the first poll after which the stripped        *)
(* output ends in '#' or '>' followed only by whitespace: nothing is read  *)
(* after that poll, what is returned is what was received up to it, and    *)
(* while the loop runs the stripped output has not matched.                *)
(***************************************************************************)
C17_StopsAtFirstPrompt ==
  /\ rpc = "poll" => ~EndsWithPrompt(_strip_ansi_codes(buffer))
  /\ \A k \in 1..(Len(reads) - 1) :
       ~EndsWithPrompt(_strip_ansi_codes(Received(k)))
  /\ matched > 0 =>
       /\ rpc = "returned"
       /\ Len(reads) = matched
       /\ buffer = Received(matched)
       /\ EndsWithPrompt(_strip_ansi_codes(buffer))

\* the second chunk completes a prompt that shows only after stripping
C17_Witness ==
  /\ rpc = "returned"
  /\ matched = 2
  /\ ~EndsWithPrompt(buffer)
  /\ EndsWithPrompt(_strip_ansi_codes(buffer))

(***************************************************************************)
(* Vocabulary of the properties of execute_command(s).                     *)
(***************************************************************************)
\* the lines without a prompt at their end: the last line when it is the
\* prompt, and the bracketed banner line in front of it
WithoutTrailingPrompt(ls) ==
  LET a == IF ls # <<>> /\ IsPromptLine(ls[Len(ls)])
             THEN SubSeq(ls, 1, Len(ls) - 1) ELSE ls
  IN IF a # <<>> /\ IsBannerLine(a[Len(a)])
       THEN SubSeq(a, 1, Len(a) - 1) ELSE a

\* the stripped output without its first line and without a trailing
\* prompt, every other line kept in order, trimmed
BodyOfOutput(out) ==
  LET ls == Split(_strip_ansi_codes(out))
  IN Strip(Join(WithoutTrailingPrompt(Tail(ls))))

ExecReturned ==
  /\ op = "execute_command"
  /\ pc = "done"
  /\ outcome = "returned"

\* commands written and not yet answered
InFlight == Len(sent) - Len(trace.answers)

(***************************************************************************)
(* C18 (as claimed): execute_command returns the stripped output without   *)
(* its first line (the echo) and without the trailing prompt; every other  *)
(* line of the output is returned, in order, trimmed at both ends, also    *)
(* when the read ended by the deadline without a prompt.                   *)
(***************************************************************************)
C18_ReturnsBodyOfOutput ==
  ExecReturned => retval = BodyOfOutput(output)

(***************************************************************************)
(* C19: execute_commands writes the commands in the order of the list,     *)
(* writes a command only when every earlier one has been answered (at most *)
(* one command is unanswered at any time), and returns one result per      *)
(* command, the i-th made from the answer to the i-th command.             *)
(***************************************************************************)
C19_OneResultPerCommandInOrder ==
  op = "execute_commands" =>
    /\ InFlight \in {0, 1}
    /\ pc = "exec_send" => InFlight = 0
    /\ sent = SubSeq(lines, 1, Len(sent))
    /\ Len(results) = Len(trace.answers)
    /\ \A i \in 1..Len(results) :
         /\ trace.answers[i] \in ExecOutputs(lines[i])
         /\ results[i] = ExecClean(trace.answers[i])
    /\ (pc = "done" /\ outcome = "returned") => Len(results) = Len(lines)

\* two different commands, two different results
C19_Witness ==
  /\ op = "execute_commands"
  /\ pc = "done"
  /\ outcome = "returned"
  /\ Len(lines) = 2
  /\ lines[1] # lines[2]
  /\ results = <<Body(lines[1]), Body(lines[2])>>

(***************************************************************************)
(* C20: execute_command and execute_commands do not fail on what the       *)
(* device answers: whatever the answers, error texts included, the call    *)
(* returns and the text is in the result; it fails only when connect       *)
(* fails and raises only when the write or the read raises.                *)
(***************************************************************************)
C20_NoFailureOnDeviceErrors ==
  (op \in {"execute_command", "execute_commands"} /\ pc = "done") =>
    /\ outcome = "failed" =>
         /\ failure.msg = "Failed to connect to "
         /\ ~connected
         /\ sent = <<>>
    /\ outcome = "raised" => trace.fault >= 0
    /\ \A i \in 1..Len(trace.answers) :
         IsRejected(trace.answers[i]) =>
           IF op = "execute_command" THEN IsRejected(retval)
           ELSE IsRejected(results[i])
    /\ (outcome = "returned" /\ op = "execute_command") =>
         retval = ExecClean(output)

\* the device answered with an error and execute_command returned it
C20_Witness ==
  /\ ExecReturned
  /\ output = Echoed(lines[1], ErrorOut)
  /\ Contains(retval, <<"E", "r", "r", "o", "r">>)

(***************************************************************************)
(* Vocabulary of the properties of _strip_ansi_codes.                      *)
(***************************************************************************)
\* the control characters of the alphabet
ControlBytes == {NUL, BEL, FF, ESC, DEL, "\n", "\t", "\r"}

EscapeForms == {"csi", "osc", "short", "charset", "dsr", "paste"}

HasEscapeForm(t) ==
  \E i \in 1..Len(t) : \E p \in EscapeForms : MatchLen(p, t, i) > 0

(***************************************************************************)
(* C21: _strip_ansi_codes returns a text for every argument, and applied   *)
(* to its own result it returns that result.                               *)
(***************************************************************************)
C21_NormalizerIdempotent ==
  /\ fpc = "done" => Len(val) \in {1, 2}
  /\ \A k \in 1..Len(val) : DOMAIN val[k] = 1..Len(val[k])
  /\ Len(val) = 2 => val[2] = val[1]

\* an argument in which removing one sequence brings the parts of another
\* together
C21_Witness ==
  /\ arg = <<ESC, ESC, ">", "=">>
  /\ val = << <<"=">>, <<"=">> >>

(***************************************************************************)
(* C22 (as claimed): what _strip_ansi_codes returns contains none of the   *)
(* escape forms it removes and no control character other than newline,    *)
(* tab and carriage return.                                                *)
(***************************************************************************)
C22_NoEscapesNoControls ==
  \A k \in 1..Len(val) :
    /\ ~HasEscapeForm(val[k])
    /\ \A i \in 1..Len(val[k]) : val[k][i] \notin ControlBytes \ {"\n", "\t", "\r"}


(***************************************************************************)
(* The drift report of srlinux_compare.                                    *)
(***************************************************************************)
\* main of srlinux_compare has ended
CompareDone == fpc = "done" /\ run.main = "srlinux_compare"

\* the run produced a DriftReport
HasReport == {"missing", "extra", "has_drift", "diff"} \subseteq DOMAIN val

\* strictly ascending: sorted and free of duplicates
Ascending(s) == \A i \in 1..(Len(s) - 1) : StrLess(s[i], s[i + 1])

\* a line is a statement iff, trimmed, it begins with `set `
SetStatements(ls) ==
  {t \in {Strip(ls[i]) : i \in 1..Len(ls)} :
     Len(t) >= 4 /\ SubSeq(t, 1, 4) = <<"s", "e", "t", " ">>}

IntendedSet == SetStatements(arg.intended)

ObservedSet == SetStatements(Split(arg.observed))

\* C23: compare reports missing = canonical intended set minus canonical
\* observed set and extra = canonical observed set minus canonical intended
\* set, each as a lexicographically sorted, duplicate-free sequence; missing
\* and extra are disjoint, and when the two canonical sets are disjoint and
\* non-empty, missing is the whole intended set and extra the whole
\* observed set.
C23_MissingAndExtra ==
  CompareDone =>
    /\ HasReport
    /\ Range(val.missing) = IntendedSet \ ObservedSet
    /\ Range(val.extra) = ObservedSet \ IntendedSet
    /\ Ascending(val.missing)
    /\ Ascending(val.extra)
    /\ Range(val.missing) \cap Range(val.extra) = {}
    /\ (IntendedSet \cap ObservedSet = {} /\ IntendedSet # {} /\ ObservedSet # {})
         => Range(val.missing) = IntendedSet /\ Range(val.extra) = ObservedSet

\* C24: has_drift is true exactly when missing or extra is non-empty;
\* has_drift is false and diff_text is empty exactly when the canonical
\* intended set equals the canonical observed set; comparing a sequence of
\* `set ` statements against its own rendering as lines reports no drift.
C24_HasDrift ==
  CompareDone =>
    /\ HasReport
    /\ val.has_drift <=> (val.missing # <<>> \/ val.extra # <<>>)
    /\ (~val.has_drift /\ val.diff = <<>>) <=> (IntendedSet = ObservedSet)
    /\ ( /\ \A i \in 1..Len(arg.intended) : StartsWith(arg.intended[i], SetToken)
         /\ arg.observed = Join(arg.intended) )
         => ~val.has_drift /\ val.diff = <<>>

\* C25: diff_text is one line `+ <statement>` for each missing statement, in
\* sorted order, followed by one line `- <statement>` for each extra
\* statement, in sorted order, and nothing else; no `-` line precedes a `+`
\* line.
C25_DiffText ==
  CompareDone =>
    /\ HasReport
    /\ val.diff = Join(Prefixed("+", Sorted(IntendedSet \ ObservedSet))
                         \o Prefixed("-", Sorted(ObservedSet \ IntendedSet)))
    /\ LET dl == Split(val.diff)
       IN \A i, j \in 1..Len(dl) :
            (i < j /\ StartsWith(dl[i], <<"-">>)) => ~StartsWith(dl[j], <<"+">>)

\* C26: only lines that, trimmed, begin with `set ` take part in the
\* comparison, on both sides; the DriftReport depends on the two sets of such
\* lines only, not on the order or the multiplicity of the input lines; for
\* intended = one `set` line and empty observed output: missing = [that
\* line], extra = [], has_drift = true, diff_text = `+ ` and that line.
C26_OnlySetLines ==
  CompareDone =>
    /\ HasReport
    /\ \A k \in 1..Len(val.missing) : StartsWith(val.missing[k], SetToken)
    /\ \A k \in 1..Len(val.extra) : StartsWith(val.extra[k], SetToken)
    /\ val = DriftReport(Sorted(IntendedSet), Join(Sorted(ObservedSet)))
    /\ (arg.intended = << <<"s", "e", "t", " ", "a">> >> /\ arg.observed = <<>>)
         => /\ val.missing = arg.intended
            /\ val.extra = <<>>
            /\ val.has_drift
            /\ val.diff = <<"+", " ", "s", "e", "t", " ", "a">>


(***************************************************************************)
(* The diff cleaner.                                                       *)
(***************************************************************************)
\* the lines of the normalized argument that are neither a bracketed
\* prompt/banner line, a device prompt line, an echo of `diff` nor blank
ContentLines ==
  LET ls == Split(_strip_ansi_codes(arg))
      keep == {i \in 1..Len(ls) :
                 /\ ~IsBannerLine(ls[i])
                 /\ ~IsPromptLine(ls[i])
                 /\ Strip(ls[i]) # <<"d", "i", "f", "f">>
                 /\ Strip(ls[i]) # <<>>}
      f[i \in 0..Len(ls)] ==
        IF i = 0 THEN <<>>
        ELSE IF i \in keep THEN Append(f[i - 1], ls[i]) ELSE f[i - 1]
  IN f[Len(ls)]

StructuralBrackets == {"{", "}", "[", "]"}

\* no alphanumeric and no structural bracket character
PurelySymbolic(t) ==
  \A i \in 1..Len(t) : ~IsAlnum(t[i]) /\ t[i] \notin StructuralBrackets

\* C27: _clean_diff_output removes every bracketed prompt/banner line, every
\* device prompt line, every `diff` echo line and every blank line, keeps the
\* remaining content lines in their order, and returns the empty string when
\* what remains contains no alphanumeric and no structural bracket character.
C27_DiffCleaner ==
  fpc = "done" =>
    /\ \A i \in 1..Len(Split(val)) :
         LET line == Split(val)[i]
         IN val # <<>> =>
              /\ ~IsBannerLine(line)
              /\ ~IsPromptLine(line)
              /\ Strip(line) # <<"d", "i", "f", "f">>
              /\ Strip(line) # <<>>
    /\ val = IF PurelySymbolic(Join(ContentLines))
               THEN <<>>
               ELSE Strip(Join(ContentLines))


(***************************************************************************)
(* Failures of connect.                                                    *)
(***************************************************************************)
\* connect has ended on a failure of client.connect() (the client is created
\* but not open) or of invoke_shell() (the client is open, without a shell)
OpeningFailed ==
  /\ pc = "done"
  /\ client = "created" \/ (client = "open" /\ shell = "none")

FailedStep == IF client = "created" THEN "connect" ELSE "invoke_shell"

\* C28: if opening the transport or the shell fails, connect has made exactly
\* one attempt, reports a connection failure that carries the underlying
\* transport error, and leaves connected = FALSE.
C28_ConnectFailsOnce ==
  OpeningFailed =>
    /\ opened.attempts = 1
    /\ outcome = "failed"
    /\ failure = [msg |-> "Failed to connect to ",
                  args |-> <<Host, ConnectError(FailedStep)>>]
    /\ ~connected

\* send_config's connect failed to open the shell
C28_Witness ==
  /\ OpeningFailed
  /\ op = "send_config"
  /\ FailedStep = "invoke_shell"
  /\ failure.args = <<Host, ConnectError("invoke_shell")>>
  /\ opened.attempts = 1


(***************************************************************************)
(* What the engine's fatal failures report.                                *)
(***************************************************************************)
FatalMessages ==
  {"Failed to connect to ", "Failed to enter candidate mode",
   "Configuration error: ", "Commit failed: "}

\* an operation has ended in one of the engine's fatal failures
EngineFailed == pc = "done" /\ outcome = "failed" /\ failure.msg \in FatalMessages

\* the text x is one of the values the message holds, or part of one
Carries(x) ==
  \E k \in 1..Len(failure.args) :
    failure.args[k] = x \/ Contains(failure.args[k], x)

\* the command that the fixed words of a message name
NamedByWords(m) ==
  CASE m = "Failed to enter candidate mode" -> {EnterCandidateCmd}
    [] m = "Commit failed: " -> {CommitCmd}
    [] OTHER -> {}

Names(c) == Carries(c) \/ c \in NamedByWords(failure.msg)

\* C29: every fatal failure reported by the engine (connection failure,
\* candidate entry failure, statement rejection, commit failure) includes the
\* device address and the proximate command or statement; a statement
\* rejection names the offending statement and the device-reported text.
C29_FailuresCarryContext ==
  EngineFailed =>
    /\ Carries(Host)
    /\ failure.msg = "Failed to enter candidate mode" => Names(EnterCandidateCmd)
    /\ failure.msg = "Commit failed: " => Names(CommitCmd)
    /\ failure.msg = "Configuration error: "
         => Carries(lines[idx]) /\ Carries(output)


(***************************************************************************)
(* C30 (as claimed): whatever the timing of the device's output, what      *)
(* _send_command returns for a command holds only what the device wrote in *)
(* answer to that command: nothing of the banner and nothing of the answer *)
(* to an earlier command.                                                  *)
(***************************************************************************)
C30_OutputOfItsCommand ==
  \A k \in 1..Len(returns) :
    \A i \in 1..Len(returns[k]) : returns[k][i].of = k


(***************************************************************************)
(* C31: check_config_diff never sends `commit now`; whatever the device    *)
(* answers after an accepted candidate entry (reports of errors included), *)
(* it sends `enter candidate`, the non-blank statements in order, `diff`,  *)
(* `discard now` and `quit`, in that order, and returns the cleaned diff:   *)
(* a text that _clean_diff_output yields for an output of the device, the  *)
(* empty text when the device wrote only the echo of `diff` and a prompt.  *)
(***************************************************************************)
C31_CheckNeverCommits ==
  op = "check_config_diff" =>
    /\ ~WasSent(CommitCmd)
    /\ (pc = "done" /\ trace.entered /\ outcome # "raised") =>
         /\ outcome = "returned"
         /\ sent = <<EnterCandidateCmd>> \o SelectSeq(lines, IsNonBlank)
                     \o <<DiffCmd, DiscardCmd, QuitCmd>>
         /\ \E o \in DiffOutputs : retval = _clean_diff_output(o)
         /\ trace.noise_diff => retval = <<>>

\* the device reported an error for a statement and the diff is not empty
C31_Witness ==
  /\ op = "check_config_diff"
  /\ pc = "done"
  /\ outcome = "returned"
  /\ trace.rejected # 0
  /\ retval # <<>>
  /\ sent[Len(sent) - 1] = DiscardCmd


(***************************************************************************)
(* C32: get_config sends exactly `enter candidate`, one retrieval command  *)
(* (`info flat` for format 'flat', `info json` for 'json', `info`          *)
(* otherwise) and `quit`, in that order; it never sends a statement or     *)
(* `commit now`, and after it returns the session is outside candidate     *)
(* mode.                                                                   *)
(***************************************************************************)
RetrievalCmd ==
  CASE format = "flat" -> <<"i", "n", "f", "o", " ", "f", "l", "a", "t">>
    [] format = "json" -> <<"i", "n", "f", "o", " ", "j", "s", "o", "n">>
    [] OTHER -> <<"i", "n", "f", "o">>

GetConfigCmds == <<EnterCandidateCmd, RetrievalCmd, QuitCmd>>

C32_GetConfigReadsOnly ==
  op = "get_config" =>
    /\ Len(sent) <= 3
    /\ sent = SubSeq(GetConfigCmds, 1, Len(sent))
    /\ (pc = "done" /\ outcome = "returned") => sent = GetConfigCmds

\* a retrieval in a format that is neither flat nor json
C32_Witness ==
  /\ op = "get_config"
  /\ pc = "done"
  /\ outcome = "returned"
  /\ format \notin {"flat", "json"}
  /\ sent = <<EnterCandidateCmd, InfoCmd, QuitCmd>>


(***************************************************************************)
(* C33 (as claimed): for the same statements and the same diff text of the *)
(* device, a real run (send_config) reports the value of changed that a    *)
(* check-mode run reports.  Both runs clean the device's diff text with    *)
(* _clean_diff_output; the check-mode run reports changed when the cleaned *)
(* diff is not empty.                                                      *)
(***************************************************************************)
C33_CheckModeAgrees ==
  (op = "send_config" /\ pc = "done" /\ outcome = "returned") =>
    (result.changed <=> check_mode_changed(result.diff))


(***************************************************************************)
(* C34 (as claimed): the acknowledgment check of enter_candidate_mode and  *)
(* the rejection check of send_config depend on the text of the device     *)
(* only, not on the echo of the command: the answer to `enter candidate`   *)
(* counts as an acknowledgment exactly when the device's text holds        *)
(* 'candidate', and a statement is rejected exactly when the device's text *)
(* holds 'error' or 'invalid'.                                             *)
(***************************************************************************)
C34_ChecksIgnoreEcho ==
  fpc = "done" =>
    IF arg.command = EnterCandidateCmd
      THEN val.acknowledged <=> Contains(Lower(arg.text), CandidateWord)
      ELSE val.rejected <=> \/ Contains(Lower(arg.text), ErrorWord)
                            \/ Contains(Lower(arg.text), InvalidWord)


(***************************************************************************)
(* The connection plugin.                                                  *)
(***************************************************************************)

IsPrefixOf(a, b) == Len(a) <= Len(b) /\ a = SubSeq(b, 1, Len(a))

WasWritten(cmd) == \E j \in 1..Len(pcall.written) : pcall.written[j] = cmd

\* the commands of the script the plugin wrote, the cleanup apart
ScriptWritten ==
  IF ptrace.step # 0 THEN ptrace.step \div 2 ELSE Len(pcall.written)

\* the statements of config_commands the plugin wrote
StatementsWritten ==
  IF ScriptWritten <= 1 THEN 0
  ELSE IF ScriptWritten - 1 <= Len(pcall.config_commands)
         THEN ScriptWritten - 1
  ELSE Len(pcall.config_commands)

SendConfigBroke ==
  pcall.op = "send_config" /\ pcall.pc = "idle" /\ ptrace.step # 0

\* C35: when a step of the plugin's send_config after connecting fails
\* (entering candidate mode, a statement, the commit, the exit), the plugin
\* writes `discard now` and then `quit` as far as the transport lets it,
\* swallows a failure of these cleanup steps, and raises a connection
\* failure that carries the text of the original error.
C35_CleanupThenRaise ==
  SendConfigBroke =>
    LET n == ptrace.step \div 2
        tail == SubSeq(pcall.written, n + 1, Len(pcall.written))
    IN /\ Len(pcall.written) >= n
       /\ SubSeq(pcall.written, 1, n) = SubSeq(Script(pcall.config_commands), 1, n)
       /\ IsPrefixOf(tail, <<DiscardCmd, QuitCmd>>)
       /\ ptrace.cleanup = 0 => tail = <<DiscardCmd, QuitCmd>>
       /\ pcall.raised.msg = "Failed to send configuration: "
       /\ pcall.raised.args = <<StepError(ptrace.step)>>

\* a statement failed, the cleanup failed after `discard now`, and the
\* failure raised is the statement's
C35_Witness ==
  /\ SendConfigBroke
  /\ ptrace.step = 4
  /\ ptrace.cleanup = 2
  /\ pcall.written = <<EnterCandidateCmd, StmtA, DiscardCmd>>
  /\ pcall.raised.args = <<StepError(4)>>

\* C36: the plugin's send_config does not commit a batch in which the
\* device rejected a statement: when the device's response to a statement
\* holds an error or invalid marker, `commit now` is not written and the
\* statements after the rejected one are not written.
C36_RejectedNotCommitted ==
  (pcall.op = "send_config" /\ ptrace.refused # {}) =>
    /\ ~WasWritten(CommitCmd)
    /\ \A r \in ptrace.refused : StatementsWritten <= r

\* C37: after any sequence of _connect (successful, or failed at any step)
\* and close() calls, no transport handle is open once close() has
\* returned, and the plugin holds no client, no shell and is not connected.
C37_CloseReleasesAll ==
  pcall.op = "close" =>
    /\ handles = 0
    /\ _ssh_client # "open"
    /\ _shell # "open"
    /\ ~_connected

(***************************************************************************)
(* C38: srlinux_compare obtains the observed configuration through an      *)
(* operation the Session provides and, the device having answered, ends    *)
(* with exit_json, the DriftReport and changed = false, after disconnect.  *)
(***************************************************************************)
C38_CompareEndsWithReport ==
  CompareDone =>
    /\ "send_command" \in SessionMethods
    /\ run.main = "srlinux_compare"
    /\ run.status = "exit_json"
    /\ run.disconnected
    /\ HasReport
    /\ ~val.changed
    /\ val = DriftReport(arg.intended, arg.observed)

====
